---- MODULE Spec2Model ----
(***************************************************************************)
(* A model of the CodeAnalysis repository: the CodeScanner pipeline        *)
(* (app/analysis/scanner.py), the MultiLanguageAnalyzer                    *)
(* (app/analysis/multi_language_analyzer.py) and the background scan of    *)
(* app.py.                                                                 *)
(*                                                                         *)
(* Numbers that are floats in the program are exact rationals here         *)
(* ([num, den] in lowest terms); round(x, 1) is Round1.  A file of the     *)
(* analysed tree is a record of the facts the program reads from it.       *)
(***************************************************************************)
EXTENDS Integers, Sequences, FiniteSets, TLC

VARIABLES
    \* --- CodeScanner.analyze_repository, run by background threads ---
    cache,      \* the scanner's _cached_* attributes: attribute name -> value
    tempdirs,   \* the temporary clone directories that exist
    pc,         \* thread -> its position in analyze_repository
    repo,       \* thread -> the repository (a sequence of catalogue indices) it analyses
    loc,        \* thread -> the locals of its invocation (stage results so far)
    ret,        \* thread -> the value analyze_repository returned
    \* --- MultiLanguageAnalyzer.analyze_complexity_for_language ---
    lpc,        \* position in the call
    lrepo,      \* the tree under the root path (a sequence of catalogue indices)
    lroot,      \* TRUE when the root path exists and is readable
    lang,       \* the primary_language argument
    tool,       \* what the external tool does when it is invoked
    tree,       \* the files the engine has written under the root and not removed
    toolres,    \* what the exact tier returned (None: fall back)
    lres,       \* the dictionary the call returns
    detected,   \* what detect_primary_language returned for the same root
    \* --- perform_scan ---
    spc,        \* position in perform_scan
    srepo,      \* the repository being scanned
    stool,      \* what the external tool does during the enhanced analysis
    sres,       \* analysis_result
    sscore,     \* the understanding score computed for the scan
    slang,      \* primary_language as detect_primary_language returned it
    sstatus,    \* repository.scan_status
    \* --- calculate_understanding_score, called on its own ---
    umetrics,       \* the metrics dictionary of the call
    understanding,  \* the dictionary the call returned (<<>>: not called yet)
    before,         \* the metric changed since the previous call, its value and the score then
    \* --- _calculate_file_priority_score and _get_priority_level ---
    pmetrics,       \* the file_metrics dictionary of _analyze_files
    pscore,         \* what _calculate_file_priority_score returned (-1: not called yet)
    plevel,         \* what _get_priority_level returned ("": not called yet)
    \* --- the regex tier on one file: _analyze_files_with_patterns ---
    hpc,            \* position in the call
    hlang,          \* the language whose keywords and function patterns are used
    hreadable,      \* TRUE when open(file_path) succeeds
    hcontent,       \* the text of the file, as a sequence of tokens
    hmatches,       \* `functions`: the matches not yet analysed (start positions)
    hbodies,        \* start position and func_content of every match analysed so far
    hscores,        \* the list _analyze_files_with_patterns builds
    \* --- the scan endpoint and its background threads: start_scan, perform_scan ---
    rstatus,        \* the committed scan_status of the repository (None: row deleted)
    rrows,          \* the committed analysis rows, each <<model, scan>>
    rpc,            \* request -> its position in start_scan
    wpc,            \* request -> the position of the perform_scan thread it started
    wsession        \* request -> the rows its thread has added and not committed

vars == <<cache, tempdirs, pc, repo, loc, ret,
          lpc, lrepo, lroot, lang, tool, tree, toolres, lres, detected,
          spc, srepo, stool, sres, sscore, slang, sstatus,
          umetrics, understanding, before,
          pmetrics, pscore, plevel,
          hpc, hlang, hreadable, hcontent, hmatches, hbodies, hscores,
          rstatus, rrows, rpc, wpc, wsession>>

scanVars == <<cache, tempdirs, pc, repo, loc, ret>>
langVars == <<lpc, lrepo, lroot, lang, tool, tree, toolres, lres, detected>>
performVars == <<spc, srepo, stool, sres, sscore, slang, sstatus>>
scoreVars == <<umetrics, understanding, before>>
priorityVars == <<pmetrics, pscore, plevel>>
regexVars == <<hpc, hlang, hreadable, hcontent, hmatches, hbodies, hscores>>
appVars == <<rstatus, rrows, rpc, wpc, wsession>>

-----------------------------------------------------------------------------
(* Generic helpers *)

None == "None"

\* dict.get(k, d)
Get(r, k, d) == IF k \in DOMAIN r THEN r[k] ELSE d

Max(a, b) == IF a >= b THEN a ELSE b
Min(a, b) == IF a <= b THEN a ELSE b
Abs(a) == IF a < 0 THEN -a ELSE a

RECURSIVE GCD(_, _)
GCD(a, b) == IF b = 0 THEN a ELSE GCD(b, a % b)

\* The rational n/d (d > 0) in lowest terms.
Rat(n, d) ==
    LET g == GCD(Abs(n), d)
    IN  IF n = 0 THEN [num |-> 0, den |-> 1] ELSE [num |-> n \div g, den |-> d \div g]

RInt(n) == Rat(n, 1)
RAdd(a, b) == Rat(a.num * b.den + b.num * a.den, a.den * b.den)
RSub(a, b) == Rat(a.num * b.den - b.num * a.den, a.den * b.den)
RMul(a, b) == Rat(a.num * b.num, a.den * b.den)
RDivInt(a, k) == Rat(a.num, a.den * k)
RLt(a, b) == a.num * b.den < b.num * a.den
RLe(a, b) == a.num * b.den <= b.num * a.den
RGt(a, b) == RLt(b, a)
RGe(a, b) == RLe(b, a)
RMax(a, b) == IF RGe(a, b) THEN a ELSE b
RMin(a, b) == IF RLe(a, b) THEN a ELSE b

\* round(x, 1) of a non-negative x: the nearest tenth, a tie going to the even tenth.
Round1(x) ==
    LET t == (10 * x.num) \div x.den
        r == 10 * x.num - t * x.den
        up == \/ 2 * r > x.den
              \/ (2 * r = x.den /\ t % 2 = 1)
    IN  Rat(IF up THEN t + 1 ELSE t, 10)

\* int(x) of a non-negative x
Floor(x) == x.num \div x.den

\* sum, min, max and concatenation of a list, computed half by half
RECURSIVE SumSeq(_)
SumSeq(s) ==
    IF s = <<>> THEN 0
    ELSE IF Len(s) = 1 THEN s[1]
    ELSE SumSeq(SubSeq(s, 1, Len(s) \div 2)) + SumSeq(SubSeq(s, Len(s) \div 2 + 1, Len(s)))

RECURSIVE RSumSeq(_)
RSumSeq(s) ==
    IF s = <<>> THEN RInt(0)
    ELSE IF Len(s) = 1 THEN s[1]
    ELSE RAdd(RSumSeq(SubSeq(s, 1, Len(s) \div 2)),
              RSumSeq(SubSeq(s, Len(s) \div 2 + 1, Len(s))))

MinSeq(s) == CHOOSE x \in {s[i] : i \in 1..Len(s)} : \A i \in 1..Len(s) : x <= s[i]

MaxSeq(s) == CHOOSE x \in {s[i] : i \in 1..Len(s)} : \A i \in 1..Len(s) : x >= s[i]

RECURSIVE Concat(_)
Concat(ss) ==
    IF ss = <<>> THEN <<>>
    ELSE IF Len(ss) = 1 THEN ss[1]
    ELSE Concat(SubSeq(ss, 1, Len(ss) \div 2)) \o Concat(SubSeq(ss, Len(ss) \div 2 + 1, Len(ss)))

Prefix(s, n) == SubSeq(s, 1, Min(n, Len(s)))

\* F applied to a value that is computed once
Bind(v, F(_)) == F(v)

Count(s, P(_)) == Cardinality({i \in 1..Len(s) : P(s[i])})

\* list.sort(key=..., reverse=True) on <<key, item>> pairs: stable, equal keys
\* keep their order.
\* An item's place is one more than the number of items that go before it: those
\* of a greater key and those of the same key that come earlier in the list.
SortPairsDesc(ps) ==
    Bind([i \in 1..Len(ps) |->
             1 + Cardinality({j \in 1..Len(ps) :
                                 \/ ps[j][1] > ps[i][1]
                                 \/ ps[j][1] = ps[i][1] /\ j < i})],
    LAMBDA place :
        [k \in 1..Len(ps) |-> ps[CHOOSE i \in 1..Len(ps) : place[i] = k]])

SortDesc(s, Key(_)) ==
    LET sorted == SortPairsDesc([i \in 1..Len(s) |-> <<Key(s[i]), s[i]>>])
    IN  [i \in 1..Len(s) |-> sorted[i][2]]

\* The ascending subsequences of 1..n of length at most k (os.walk lists a
\* tree's files in one fixed order).
RECURSIVE SubSeqsUpTo(_, _)
SubSeqsUpTo(n, k) ==
    IF n = 0 \/ k = 0 THEN {<<>>}
    ELSE SubSeqsUpTo(n - 1, k)
         \cup {Append(s, n) : s \in SubSeqsUpTo(n - 1, k - 1)}

-----------------------------------------------------------------------------
(* The analysed trees.  A file is the record of what the program reads from *)
(* it: its extension, its blank / comment / code line counts, the function  *)
(* blocks the parse-tree library (or the regex tier) finds in it, the       *)
(* library's maintainability index, its significant lines (trimmed length   *)
(* > 15, neither comment nor import) as content identifiers in line order,  *)
(* its quality-smell points, and whether open() and the parser succeed.     *)
(* Its import lines longer than 15 characters are content identifiers too.  *)

Fn(n, c, l, d) == [name |-> n, cx |-> c, len |-> l, doc |-> d]

SrcFile(n, e, b, c, k, fs, m, sg, q, r, ps) ==
    [name |-> n, ext |-> e, blank |-> b, comment |-> c, code |-> k, funcs |-> fs,
     mi |-> m, sig |-> sg, quality |-> q, readable |-> r, parses |-> ps,
     imports |-> <<>>]

\* the file with import lines (trimmed length > 15) among its code lines
WithImports(f, lines) == [f EXCEPT !.imports = lines]

ElevenComplex ==
    << Fn("c01", 11, 12, TRUE), Fn("c02", 12, 12, TRUE), Fn("c03", 13, 12, TRUE),
       Fn("c04", 14, 12, TRUE), Fn("c05", 15, 12, TRUE), Fn("c06", 16, 12, TRUE),
       Fn("c07", 17, 12, TRUE), Fn("c08", 18, 12, TRUE), Fn("c09", 19, 12, TRUE),
       Fn("c10", 20, 12, TRUE), Fn("c11", 21, 60, FALSE) >>

ScanFiles ==
    << WithImports(
           SrcFile("a.py", "py", 2, 1, 20, <<Fn("f", 3, 5, TRUE), Fn("g", 12, 40, FALSE)>>,
                   Rat(625, 10), <<1, 2, 1>>, 3, TRUE, TRUE),
           <<90, 90>>),
       SrcFile("big.py", "py", 10, 30, 200, ElevenComplex,
               Rat(350, 10), <<2, 3>>, 0, TRUE, TRUE),
       SrcFile("app.js", "js", 1, 0, 10, <<Fn("h", 4, 8, FALSE)>>,
               Rat(0, 1), <<4, 4>>, 0, TRUE, TRUE),
       SrcFile("Main.hs", "hs", 1, 0, 5, <<>>,
               Rat(0, 1), <<1>>, 0, TRUE, TRUE),
       SrcFile("empty.py", "py", 3, 0, 0, <<>>,
               Rat(1000, 10), <<>>, 0, TRUE, TRUE),
       SrcFile("lock.py", "py", 0, 0, 8, <<Fn("k", 2, 3, TRUE)>>,
               Rat(800, 10), <<5>>, 0, FALSE, TRUE) >>

\* files of the other languages the MultiLanguageAnalyzer handles
LangFiles ==
    << SrcFile("web.ts", "ts", 2, 1, 30, <<Fn("t1", 2, 4, FALSE), Fn("t2", 7, 9, FALSE)>>,
               Rat(0, 1), <<6>>, 0, TRUE, TRUE),
       SrcFile("Main.java", "java", 20, 10, 400, <<Fn("m1", 3, 9, FALSE), Fn("m2", 12, 30, FALSE)>>,
               Rat(0, 1), <<7>>, 0, TRUE, TRUE),
       SrcFile("util.go", "go", 5, 2, 90, <<Fn("g1", 6, 20, FALSE)>>,
               Rat(0, 1), <<8>>, 0, TRUE, TRUE),
       SrcFile("lib.rs", "rs", 3, 0, 50, <<Fn("r1", 11, 20, FALSE)>>,
               Rat(0, 1), <<9>>, 0, TRUE, TRUE),
       SrcFile("x.cpp", "cpp", 3, 0, 70, <<Fn("x1", 5, 20, FALSE)>>,
               Rat(0, 1), <<10>>, 0, TRUE, TRUE),
       SrcFile("notes.txt", "txt", 1, 0, 6, <<Fn("see", 1, 1, FALSE)>>,
               Rat(0, 1), <<>>, 0, TRUE, TRUE),
       SrcFile("App.swift", "swift", 2, 0, 40, <<Fn("s1", 12, 20, FALSE)>>,
               Rat(0, 1), <<11>>, 0, TRUE, TRUE),
       SrcFile("bad.js", "js", 0, 0, 25, <<Fn("b1", 9, 20, FALSE)>>,
               Rat(0, 1), <<12>>, 0, FALSE, TRUE) >>

\* Repositories of one language with a single function, of complexity 12, no
\* comment line and no repeated line: for each of five languages a file with
\* the function, two small files without functions and a very long one.
ScenarioFiles ==
    << SrcFile("one.py", "py", 2, 0, 30, <<Fn("solve", 12, 30, FALSE)>>,
               Rat(550, 10), <<101, 102>>, 0, TRUE, TRUE),
       SrcFile("p1.py", "py", 1, 0, 10, <<>>,
               Rat(1000, 10), <<103>>, 0, TRUE, TRUE),
       SrcFile("p2.py", "py", 1, 0, 12, <<>>,
               Rat(1000, 10), <<104>>, 0, TRUE, TRUE),
       SrcFile("huge.py", "py", 0, 0, 3000, <<>>,
               Rat(200, 10), <<105>>, 0, TRUE, TRUE),
       SrcFile("one.js", "js", 2, 0, 30, <<Fn("solve", 12, 30, FALSE)>>,
               Rat(0, 1), <<201, 202>>, 0, TRUE, TRUE),
       SrcFile("p1.js", "js", 1, 0, 10, <<>>,
               Rat(0, 1), <<203>>, 0, TRUE, TRUE),
       SrcFile("p2.js", "js", 1, 0, 12, <<>>,
               Rat(0, 1), <<204>>, 0, TRUE, TRUE),
       SrcFile("huge.js", "js", 0, 0, 3000, <<>>,
               Rat(0, 1), <<205>>, 0, TRUE, TRUE),
       SrcFile("one.java", "java", 2, 0, 30, <<Fn("solve", 12, 30, FALSE)>>,
               Rat(0, 1), <<301, 302>>, 0, TRUE, TRUE),
       SrcFile("p1.java", "java", 1, 0, 10, <<>>,
               Rat(0, 1), <<303>>, 0, TRUE, TRUE),
       SrcFile("p2.java", "java", 1, 0, 12, <<>>,
               Rat(0, 1), <<304>>, 0, TRUE, TRUE),
       SrcFile("huge.java", "java", 0, 0, 3000, <<>>,
               Rat(0, 1), <<305>>, 0, TRUE, TRUE),
       SrcFile("one.go", "go", 2, 0, 30, <<Fn("solve", 12, 30, FALSE)>>,
               Rat(0, 1), <<401, 402>>, 0, TRUE, TRUE),
       SrcFile("p1.go", "go", 1, 0, 10, <<>>,
               Rat(0, 1), <<403>>, 0, TRUE, TRUE),
       SrcFile("p2.go", "go", 1, 0, 12, <<>>,
               Rat(0, 1), <<404>>, 0, TRUE, TRUE),
       SrcFile("huge.go", "go", 0, 0, 3000, <<>>,
               Rat(0, 1), <<405>>, 0, TRUE, TRUE),
       SrcFile("one.swift", "swift", 2, 0, 30, <<Fn("solve", 12, 30, FALSE)>>,
               Rat(0, 1), <<501, 502>>, 0, TRUE, TRUE),
       SrcFile("p1.swift", "swift", 1, 0, 10, <<>>,
               Rat(0, 1), <<503>>, 0, TRUE, TRUE),
       SrcFile("p2.swift", "swift", 1, 0, 12, <<>>,
               Rat(0, 1), <<504>>, 0, TRUE, TRUE),
       SrcFile("huge.swift", "swift", 0, 0, 3000, <<>>,
               Rat(0, 1), <<505>>, 0, TRUE, TRUE) >>

\* The number of files of the largest tree whose files and functions are ranked.
MaxRankFiles == 22

\* Python files, each with four functions, whose sizes, complexities, docstrings
\* and maintainability differ from file to file
RankFiles ==
    [i \in 1..MaxRankFiles |->
        SrcFile("r" \o ToString(i) \o ".py", "py", i % 3, (i * 5) % 11, 30 * i,
                <<Fn("r1", ((i * 7) % 17) + 1, 10 + i, i % 3 = 0),
                  Fn("r2", ((i * 3) % 13) + 1, 35, TRUE),
                  Fn("r3", 2, 5, i % 2 = 1),
                  Fn("r4", ((i * 5) % 12) + 1, 60, TRUE)>>,
                Rat(((i * 37) % 100) * 10, 10), <<1000 + i, 1000 + (i % 5)>>, i % 3,
                TRUE, TRUE)]

\* a very long Go file with one function of high complexity
LargeFiles ==
    << SrcFile("gen.go", "go", 0, 0, 4000, <<Fn("table", 15, 900, FALSE)>>,
               Rat(0, 1), <<13>>, 0, TRUE, TRUE) >>

Catalogue == ScanFiles \o LangFiles \o ScenarioFiles \o RankFiles \o LargeFiles

\* The number of files a tree of the concurrent-scan specification holds at most.
MaxFiles == 2

\* ... and a tree that a second, concurrent invocation analyses.
MaxOtherFiles == 1

ScanRepos == SubSeqsUpTo(Len(ScanFiles), MaxFiles)
OtherRepos == SubSeqsUpTo(Len(ScanFiles), MaxOtherFiles)

Path(d, i) == [dir |-> d, f |-> i]
FileOf(p) == Catalogue[p.f]
Basename(p) == FileOf(p).name
\* os.path.relpath(file_path, repo_path)
Relpath(p, d) == IF p.dir = d THEN <<".", Basename(p)>> ELSE <<"..", p.dir, Basename(p)>>
\* os.walk(repo_path): the files of the tree, none once the directory is gone
Walk(d, tr, dirs) == IF d \in dirs THEN [i \in 1..Len(tr) |-> Path(d, tr[i])] ELSE <<>>
\* open(file_path) succeeds
CanRead(p, dirs) == p.dir \in dirs /\ FileOf(p).readable

-----------------------------------------------------------------------------
(* CodeScanner: the stages of analyze_repository *)

language_map ==
    [py |-> "Python", js |-> "JavaScript", ts |-> "TypeScript", jsx |-> "JavaScript",
     tsx |-> "TypeScript", java |-> "Java", c |-> "C", cpp |-> "C++", cc |-> "C++",
     cxx |-> "C++", h |-> "C/C++", hpp |-> "C++", cs |-> "C#", rb |-> "Ruby",
     go |-> "Go", rs |-> "Rust", php |-> "PHP", swift |-> "Swift", kt |-> "Kotlin",
     scala |-> "Scala", m |-> "Objective-C", mm |-> "Objective-C++", r |-> "R",
     pl |-> "Perl", sh |-> "Shell", bash |-> "Shell", ps1 |-> "PowerShell",
     lua |-> "Lua", dart |-> "Dart", vue |-> "Vue.js", svelte |-> "Svelte"]

source_extensions ==
    DOMAIN language_map \cup
    {"elm", "clj", "cljs", "ex", "exs", "fs", "fsx", "ml", "mli", "hs", "lhs",
     "pas", "pp", "inc", "asm", "s"}

RECURSIVE Dedup(_)
Dedup(s) ==
    IF s = <<>> THEN <<>>
    ELSE LET rest == Dedup(SubSeq(s, 1, Len(s) - 1))
             x == s[Len(s)]
         IN  IF \E i \in 1..Len(rest) : rest[i] = x THEN rest ELSE Append(rest, x)

\* _analyze_language_distribution.  language_distribution is the dictionary
\* that json.dumps serialises ('{}' is the empty one).
_analyze_language_distribution(walk, dirs) ==
    Bind(SelectSeq(walk, LAMBDA p : FileOf(p).ext \in DOMAIN language_map /\ CanRead(p, dirs)),
    LAMBDA source_files :
    Bind(Dedup([i \in 1..Len(source_files) |-> language_map[FileOf(source_files[i]).ext]]),
    LAMBDA langs :
    Bind([l \in {langs[i] : i \in 1..Len(langs)} |->
            SumSeq([i \in 1..Len(source_files) |->
                IF language_map[FileOf(source_files[i]).ext] = l
                THEN FileOf(source_files[i]).comment + FileOf(source_files[i]).code
                ELSE 0])],
    LAMBDA language_lines :
    Bind([i \in 1..Len(langs) |-> language_lines[langs[i]]],
    LAMBDA counts :
    Bind(SumSeq(counts),
    LAMBDA total_code_lines :
        IF total_code_lines = 0
        THEN [primary_language |-> "Unknown",
              language_distribution |-> <<>>,
              files_analyzed |-> 0]
        ELSE [primary_language |->
                  \* max(language_lines, key=language_lines.get): the first of the largest
                  langs[CHOOSE i \in 1..Len(langs) :
                            /\ counts[i] = MaxSeq(counts)
                            /\ \A j \in 1..(i - 1) : counts[j] # MaxSeq(counts)],
              language_distribution |->
                  [l \in DOMAIN language_lines |->
                      [lines |-> language_lines[l],
                       percentage |-> Round1(Rat(language_lines[l] * 100, total_code_lines))]],
              files_analyzed |-> Len(source_files),
              source_files |-> source_files])))))

\* _find_source_files: by extension only, nothing is opened
_find_source_files(walk) ==
    SelectSeq(walk, LAMBDA p : FileOf(p).ext \in source_extensions)

\* getattr(self, '_cached_source_files', None) or self._find_source_files(repo_path)
SourceFiles(ch, walk) ==
    IF "_cached_source_files" \in DOMAIN ch /\ ch["_cached_source_files"] # <<>>
    THEN ch["_cached_source_files"]
    ELSE _find_source_files(walk)

\* _assess_documentation_quality
_assess_documentation_quality(comment_ratio, code_lines) ==
    IF code_lines < 100
    THEN IF RGe(comment_ratio, RInt(15)) THEN "Excellent"
         ELSE IF RGe(comment_ratio, RInt(8)) THEN "Good"
         ELSE IF RGe(comment_ratio, RInt(3)) THEN "Fair"
         ELSE "Poor"
    ELSE IF RGe(comment_ratio, RInt(20)) THEN "Excellent"
         ELSE IF RGe(comment_ratio, RInt(12)) THEN "Good"
         ELSE IF RGe(comment_ratio, RInt(6)) THEN "Fair"
         ELSE "Poor"

\* _enhanced_lines_analysis
_enhanced_lines_analysis(ch, walk, dirs) ==
    Bind(SelectSeq(SourceFiles(ch, walk), LAMBDA p : CanRead(p, dirs)),
    LAMBDA read :
    Bind(SumSeq([i \in 1..Len(read) |-> FileOf(read[i]).blank]),
    LAMBDA blank_lines :
    Bind(SumSeq([i \in 1..Len(read) |-> FileOf(read[i]).comment]),
    LAMBDA comment_lines :
    Bind(SumSeq([i \in 1..Len(read) |-> FileOf(read[i]).code]),
    LAMBDA code_lines :
    Bind(blank_lines + comment_lines + code_lines,
    LAMBDA total_lines :
    Bind(Rat(comment_lines * 100, Max(total_lines, 1)),
    LAMBDA comment_ratio :
        [total_lines |-> total_lines,
         code_lines |-> code_lines,
         comment_lines |-> comment_lines,
         blank_lines |-> blank_lines,
         comment_ratio |-> Round1(comment_ratio),
         code_percentage |-> Round1(Rat(code_lines * 100, Max(total_lines, 1))),
         comment_percentage |-> Round1(comment_ratio),
         blank_percentage |-> Round1(Rat(blank_lines * 100, Max(total_lines, 1))),
         documentation_quality |-> _assess_documentation_quality(comment_ratio, code_lines)]))))))

\* [f for f in source_files if f.endswith('.py')]
PythonFiles(source_files) == SelectSeq(source_files, LAMBDA p : FileOf(p).ext = "py")

\* the files of a list that open() and the parse-tree library both accept
Parsed(files, dirs) == SelectSeq(files, LAMBDA p : CanRead(p, dirs) /\ FileOf(p).parses)

\* the function blocks of a list of files, in file order: <<path, block>> pairs
Blocks(files) ==
    Concat([i \in 1..Len(files) |->
        [j \in 1..Len(FileOf(files[i]).funcs) |-> <<files[i], FileOf(files[i]).funcs[j]>>]])

\* [:10] of the high-complexity list
TopComplex == 10

ZeroComplexity ==
    [complexity_score |-> RInt(0), complexity_min |-> RInt(0), complexity_max |-> RInt(0),
     simple_functions |-> 0, moderate_functions |-> 0, complex_functions |-> 0,
     total_functions |-> 0, high_complexity_functions |-> <<>>]

\* sorted(function_details, key=complexity, reverse=True)[:10]
HighComplexityFunctions(function_details) ==
    Prefix(SortDesc(function_details, LAMBDA d : d.complexity), TopComplex)

\* _enhanced_complexity_analysis
_enhanced_complexity_analysis(ch, walk, dirs) ==
    Bind(PythonFiles(SourceFiles(ch, walk)),
    LAMBDA python_files :
    Bind(Blocks(Parsed(python_files, dirs)),
    LAMBDA blocks :
    Bind([i \in 1..Len(blocks) |-> blocks[i][2].cx],
    LAMBDA all_complexities :
    Bind(SelectSeq(blocks, LAMBDA b : b[2].cx > 10),
    LAMBDA complex :
    Bind([i \in 1..Len(complex) |->
             [name |-> complex[i][2].name, complexity |-> complex[i][2].cx,
              file |-> Basename(complex[i][1]), category |-> "Complex"]],
    LAMBDA function_details :
    Bind(Len(all_complexities),
    LAMBDA total_functions :
        IF python_files = <<>> \/ total_functions = 0 THEN ZeroComplexity
        ELSE [complexity_score |-> Round1(Rat(SumSeq(all_complexities), total_functions)),
              complexity_min |-> RInt(MinSeq(all_complexities)),
              complexity_max |-> RInt(MaxSeq(all_complexities)),
              simple_functions |-> Count(all_complexities, LAMBDA c : c <= 5),
              moderate_functions |-> Count(all_complexities, LAMBDA c : c > 5 /\ c <= 10),
              complex_functions |-> Count(all_complexities, LAMBDA c : c > 10),
              total_functions |-> total_functions,
              high_complexity_functions |-> HighComplexityFunctions(function_details)]))))))

\* sort(key=mi_score): ascending, stable (mi_score is a whole number of tenths)
SortAscMi(file_scores) ==
    SortDesc(file_scores, LAMBDA f : 0 - Floor(RMul(f.mi_score, RInt(10))))

\* _enhanced_maintainability_analysis: mi_visit(code, multi=True) is one number a file
_enhanced_maintainability_analysis(ch, walk, dirs) ==
    Bind(PythonFiles(SourceFiles(ch, walk)),
    LAMBDA python_files :
    Bind(Parsed(python_files, dirs),
    LAMBDA scored :
    Bind([i \in 1..Len(scored) |->
             [file |-> Basename(scored[i]), mi_score |-> Round1(FileOf(scored[i]).mi)]],
    LAMBDA file_scores :
    Bind(RSumSeq([i \in 1..Len(scored) |-> FileOf(scored[i]).mi]),
    LAMBDA total :
        IF python_files = <<>> \/ scored = <<>> THEN [maintainability_index |-> RInt(0)]
        ELSE [maintainability_index |-> Round1(RDivInt(total, Len(scored))),
              low_maintainability_files |->
                  Prefix(SortAscMi(SelectSeq(file_scores,
                                             LAMBDA f : RLt(f.mi_score, RInt(50)))), 5)]))))

\* the significant lines of the readable files of a list, in reading order
SigLines(files, dirs) ==
    LET read == SelectSeq(files, LAMBDA p : CanRead(p, dirs))
    IN  Concat([i \in 1..Len(read) |->
            [j \in 1..Len(FileOf(read[i]).sig) |->
                [path |-> read[i], file |-> Basename(read[i]), line |-> j,
                 content |-> FileOf(read[i]).sig[j]]]])

\* the test with the line itself among the lines seen: every line is a repeat
SeenBeforeOrNow(lines, i) == \E j \in 1..i : lines[j].content = lines[i].content

\* line i of the list repeats an earlier line (its hash is already in line_locations;
\* hash() of two different lines is taken to differ)
SeenBefore(lines, i) == \E j \in 1..(i - 1) : lines[j].content = lines[i].content

\* _enhanced_duplication_analysis
_enhanced_duplication_analysis(ch, walk, dirs) ==
    Bind(SourceFiles(ch, walk),
    LAMBDA source_files :
    Bind(SigLines(source_files, dirs),
    LAMBDA lines :
    Bind({i \in 1..Len(lines) : SeenBefore(lines, i)},
    LAMBDA repeated :
    \* file_duplication, keyed by basename: a later file of the same name overwrites
    Bind(SelectSeq(source_files, LAMBDA p : CanRead(p, dirs) /\ FileOf(p).sig # <<>>),
    LAMBDA read :
    Bind(Dedup([i \in 1..Len(read) |-> Basename(read[i])]),
    LAMBDA names :
    Bind([n \in 1..Len(names) |->
             Bind(read[CHOOSE i \in 1..Len(read) :
                          /\ Basename(read[i]) = names[n]
                          /\ \A j \in (i + 1)..Len(read) : Basename(read[j]) # names[n]],
             LAMBDA p :
             Bind({i \in 1..Len(lines) : lines[i].path = p},
             LAMBDA mine :
                 <<names[n], Round1(Rat(Cardinality(mine \cap repeated) * 100,
                                        Cardinality(mine)))>>))],
    LAMBDA file_duplication :
    \* line_locations, in insertion order
    Bind(SelectSeq([i \in 1..Len(lines) |-> i], LAMBDA i : i \notin repeated),
    LAMBDA firsts :
    Bind([n \in 1..Len(firsts) |->
             Bind(SelectSeq([k \in 1..Len(lines) |-> k],
                            LAMBDA k : lines[k].content = lines[firsts[n]].content),
             LAMBDA locs :
                 [content |-> lines[firsts[n]].content,
                  occurrences |-> Len(locs),
                  locations |-> [k \in 1..Min(5, Len(locs)) |->
                      [file |-> lines[locs[k]].file,
                       line |-> lines[locs[k]].line,
                       content |-> lines[locs[k]].content]]])],
    LAMBDA blocks :
        IF source_files = <<>>
        THEN [duplication_percentage |-> RInt(0), duplicate_blocks |-> <<>>]
        ELSE [duplication_percentage |->
                  Round1(Rat(Cardinality(repeated) * 100, Max(Len(lines), 1))),
              duplicate_blocks |->
                  Prefix(SortDesc(SelectSeq(blocks, LAMBDA b : b.occurrences > 1),
                                  LAMBDA b : b.occurrences), 10),
              high_duplication_files |->
                  Prefix(SortDesc(SelectSeq(file_duplication, LAMBDA e : RGt(e[2], RInt(15))),
                                  LAMBDA e : Floor(RMul(e[2], RInt(10)))), 5),
              files_with_duplication |->
                  Count(file_duplication, LAMBDA e : RGt(e[2], RInt(5)))]))))))))

\* minutes per complex function
ComplexityDebtMinutes == 15

\* _enhanced_technical_debt_analysis with the quality issues left out of the total
DebtWithoutQuality(ch, walk, dirs) ==
    Bind(PythonFiles(SourceFiles(ch, walk)),
    LAMBDA python_files :
    Bind(Blocks(Parsed(python_files, dirs)),
    LAMBDA blocks :
    Bind(IF "_cached_duplication_pct" \in DOMAIN ch /\ "_cached_total_lines" \in DOMAIN ch
         THEN Floor(RDivInt(RMul(ch["_cached_duplication_pct"],
                                 RInt(ch["_cached_total_lines"])), 200))
         ELSE 0,
    LAMBDA duplication_debt :
    Bind(IF "_cached_complex_functions" \in DOMAIN ch
         THEN Len(ch["_cached_complex_functions"]) * ComplexityDebtMinutes
         ELSE 0,
    LAMBDA complexity_debt :
    Bind(10 * Count(blocks, LAMBDA b : b[2].len > 50),
    LAMBDA long_function_debt :
    Bind(5 * Count(blocks, LAMBDA b : ~b[2].doc),
    LAMBDA documentation_debt :
    Bind(SelectSeq(python_files, LAMBDA p : CanRead(p, dirs)),
    LAMBDA read :
    Bind(SumSeq([i \in 1..Len(read) |-> FileOf(read[i]).quality]),
    LAMBDA quality_debt :
        [technical_debt_minutes |->
             duplication_debt + complexity_debt + documentation_debt
             + long_function_debt,
         duplication_debt_minutes |-> duplication_debt,
         complexity_debt_minutes |-> complexity_debt,
         documentation_debt_minutes |-> documentation_debt,
         long_function_debt_minutes |-> long_function_debt,
         quality_debt_minutes |-> quality_debt,
         debt_breakdown |->
             [duplication |-> duplication_debt, complexity |-> complexity_debt,
              documentation |-> documentation_debt, long_functions |-> long_function_debt,
              quality_issues |-> quality_debt]]))))))))

\* _enhanced_technical_debt_analysis
_enhanced_technical_debt_analysis(ch, walk, dirs) ==
    Bind(PythonFiles(SourceFiles(ch, walk)),
    LAMBDA python_files :
    Bind(Blocks(Parsed(python_files, dirs)),
    LAMBDA blocks :
    Bind(IF "_cached_duplication_pct" \in DOMAIN ch /\ "_cached_total_lines" \in DOMAIN ch
         THEN Floor(RDivInt(RMul(ch["_cached_duplication_pct"],
                                 RInt(ch["_cached_total_lines"])), 200))
         ELSE 0,
    LAMBDA duplication_debt :
    Bind(IF "_cached_complex_functions" \in DOMAIN ch
         THEN Len(ch["_cached_complex_functions"]) * ComplexityDebtMinutes
         ELSE 0,
    LAMBDA complexity_debt :
    Bind(10 * Count(blocks, LAMBDA b : b[2].len > 50),
    LAMBDA long_function_debt :
    Bind(5 * Count(blocks, LAMBDA b : ~b[2].doc),
    LAMBDA documentation_debt :
    Bind(SelectSeq(python_files, LAMBDA p : CanRead(p, dirs)),
    LAMBDA read :
    Bind(SumSeq([i \in 1..Len(read) |-> FileOf(read[i]).quality]),
    LAMBDA quality_debt :
        [technical_debt_minutes |->
             duplication_debt + complexity_debt + documentation_debt
             + long_function_debt + quality_debt,
         duplication_debt_minutes |-> duplication_debt,
         complexity_debt_minutes |-> complexity_debt,
         documentation_debt_minutes |-> documentation_debt,
         long_function_debt_minutes |-> long_function_debt,
         quality_debt_minutes |-> quality_debt,
         debt_breakdown |->
             [duplication |-> duplication_debt, complexity |-> complexity_debt,
              documentation |-> documentation_debt, long_functions |-> long_function_debt,
              quality_issues |-> quality_debt]]))))))))

\* _get_language_from_extension
_get_language_from_extension(ext) ==
    LET m == [py |-> "Python", js |-> "JavaScript", ts |-> "TypeScript", java |-> "Java",
              c |-> "C", cpp |-> "C++", cs |-> "C#", rb |-> "Ruby", go |-> "Go",
              rs |-> "Rust", php |-> "PHP", swift |-> "Swift", kt |-> "Kotlin",
              scala |-> "Scala"]
    IN  Get(m, ext, "Unknown")

\* _analyze_single_file.  content.split('\n') of a file that ends with a newline has
\* one more (blank) entry than the file has lines.
_analyze_single_file(p, language) ==
    Bind(FileOf(p),
    LAMBDA f :
    Bind(f.blank + f.comment + f.code + 1,
    LAMBDA total_lines :
    Bind(language = "Python" /\ f.parses,
    LAMBDA measured :
    Bind([i \in 1..Len(f.funcs) |-> f.funcs[i].cx],
    LAMBDA cxs :
    \* the lines longer than 15 characters that are no comments: imports count here
    Bind(f.imports \o f.sig,
    LAMBDA long_lines :
    Bind(Cardinality({i \in 1..Len(long_lines) :
                         \E j \in 1..(i - 1) : long_lines[j] = long_lines[i]}),
    LAMBDA duplicate_lines :
        [lines_of_code |-> total_lines,
         code_lines |-> f.code,
         comment_lines |-> f.comment,
         blank_lines |-> f.blank + 1,
         complexity_score |->
             Round1(IF measured /\ cxs # <<>> THEN Rat(SumSeq(cxs), Len(cxs)) ELSE RInt(0)),
         maintainability_index |-> IF measured THEN Round1(f.mi) ELSE RInt(100),
         duplication_percentage |-> Round1(Rat(duplicate_lines * 100, Max(f.code, 1))),
         function_count |-> IF measured THEN Len(cxs) ELSE 0,
         comment_ratio |-> Round1(Rat(f.comment * 100, Max(total_lines, 1)))]))))))

\* the priority score with the documentation bands chained to the duplication
\* bands by elif: documentation counts only when no duplication band applies
PriorityScoreChained(metrics) ==
    LET complexity == IF RGt(metrics.complexity_score, RInt(15)) THEN 30
                      ELSE IF RGt(metrics.complexity_score, RInt(10)) THEN 20
                      ELSE IF RGt(metrics.complexity_score, RInt(5)) THEN 10 ELSE 0
        maintainability == IF RLt(metrics.maintainability_index, RInt(30)) THEN 25
                           ELSE IF RLt(metrics.maintainability_index, RInt(50)) THEN 15
                           ELSE IF RLt(metrics.maintainability_index, RInt(70)) THEN 5 ELSE 0
        duplication == IF RGt(metrics.duplication_percentage, RInt(30)) THEN 20
                       ELSE IF RGt(metrics.duplication_percentage, RInt(15)) THEN 10
                       ELSE IF RGt(metrics.duplication_percentage, RInt(5)) THEN 5
                       ELSE IF RLt(metrics.comment_ratio, RInt(3)) THEN 10
                       ELSE IF RLt(metrics.comment_ratio, RInt(8)) THEN 5 ELSE 0
        size == IF metrics.lines_of_code > 500 THEN 10
                ELSE IF metrics.lines_of_code > 300 THEN 5 ELSE 0
    IN  Min(100, complexity + maintainability + duplication + size)

\* _calculate_file_priority_score
_calculate_file_priority_score(metrics) ==
    LET complexity == IF RGt(metrics.complexity_score, RInt(15)) THEN 30
                      ELSE IF RGt(metrics.complexity_score, RInt(10)) THEN 20
                      ELSE IF RGt(metrics.complexity_score, RInt(5)) THEN 10 ELSE 0
        maintainability == IF RLt(metrics.maintainability_index, RInt(30)) THEN 25
                           ELSE IF RLt(metrics.maintainability_index, RInt(50)) THEN 15
                           ELSE IF RLt(metrics.maintainability_index, RInt(70)) THEN 5 ELSE 0
        duplication == IF RGt(metrics.duplication_percentage, RInt(30)) THEN 20
                       ELSE IF RGt(metrics.duplication_percentage, RInt(15)) THEN 10
                       ELSE IF RGt(metrics.duplication_percentage, RInt(5)) THEN 5 ELSE 0
        documentation == IF RLt(metrics.comment_ratio, RInt(3)) THEN 10
                         ELSE IF RLt(metrics.comment_ratio, RInt(8)) THEN 5 ELSE 0
        size == IF metrics.lines_of_code > 500 THEN 10
                ELSE IF metrics.lines_of_code > 300 THEN 5 ELSE 0
    IN  Min(100, complexity + maintainability + duplication + documentation + size)

\* the priority tiers with Critical starting above 70
PriorityLevelAbove(score) ==
    IF score > 70 THEN "Critical"
    ELSE IF score >= 50 THEN "High"
    ELSE IF score >= 25 THEN "Medium"
    ELSE "Low"

\* _get_priority_level
_get_priority_level(score) ==
    IF score >= 70 THEN "Critical"
    ELSE IF score >= 50 THEN "High"
    ELSE IF score >= 25 THEN "Medium"
    ELSE "Low"

\* [:20] of the file ranking, [:50] of the function ranking
TopFiles == 20
TopFunctions == 50

\* _analyze_files returning the first files in the order of the walk
AnalyzeFilesUnsorted(ch, walk, d, dirs) ==
    Bind(SelectSeq(SourceFiles(ch, walk), LAMBDA p : CanRead(p, dirs)),
    LAMBDA read :
    Bind([i \in 1..Len(read) |->
             Bind(_get_language_from_extension(FileOf(read[i]).ext),
             LAMBDA language :
             Bind(_analyze_single_file(read[i], language),
             LAMBDA m :
             Bind(_calculate_file_priority_score(m),
             LAMBDA priority_score :
                 [file_path |-> Relpath(read[i], d),
                  file_name |-> Basename(read[i]),
                  language |-> language,
                  lines_of_code |-> m.lines_of_code,
                  complexity_score |-> m.complexity_score,
                  duplication_percentage |-> m.duplication_percentage,
                  maintainability_index |-> m.maintainability_index,
                  function_count |-> m.function_count,
                  comment_ratio |-> m.comment_ratio,
                  improvement_priority |-> _get_priority_level(priority_score),
                  priority_score |-> priority_score])))],
    LAMBDA file_analyses :
        Prefix(file_analyses, TopFiles)))

\* _analyze_files
_analyze_files(ch, walk, d, dirs) ==
    Bind(SelectSeq(SourceFiles(ch, walk), LAMBDA p : CanRead(p, dirs)),
    LAMBDA read :
    Bind([i \in 1..Len(read) |->
             Bind(_get_language_from_extension(FileOf(read[i]).ext),
             LAMBDA language :
             Bind(_analyze_single_file(read[i], language),
             LAMBDA m :
             Bind(_calculate_file_priority_score(m),
             LAMBDA priority_score :
                 [file_path |-> Relpath(read[i], d),
                  file_name |-> Basename(read[i]),
                  language |-> language,
                  lines_of_code |-> m.lines_of_code,
                  complexity_score |-> m.complexity_score,
                  duplication_percentage |-> m.duplication_percentage,
                  maintainability_index |-> m.maintainability_index,
                  function_count |-> m.function_count,
                  comment_ratio |-> m.comment_ratio,
                  improvement_priority |-> _get_priority_level(priority_score),
                  priority_score |-> priority_score])))],
    LAMBDA file_analyses :
        Prefix(SortDesc(file_analyses, LAMBDA a : a.priority_score), TopFiles)))

\* _analyze_functions storing every function, whether it needs attention or not
AnalyzeFunctionsUnfiltered(ch, walk, d, dirs) ==
    Bind(Blocks(Parsed(PythonFiles(SourceFiles(ch, walk)), dirs)),
    LAMBDA blocks :
    Bind([i \in 1..Len(blocks) |->
             Bind(blocks[i],
             LAMBDA b :
             Bind(FileOf(b[1]).funcs,
             LAMBDA fs :
             Bind(fs[CHOOSE k \in 1..Len(fs) :
                        /\ fs[k].name = b[2].name
                        /\ \A j \in (k + 1)..Len(fs) : fs[j].name # b[2].name].cx,
             LAMBDA complexity :
                 [file_path |-> Relpath(b[1], d),
                  function_name |-> b[2].name,
                  complexity_score |-> complexity,
                  lines_of_code |-> b[2].len,
                  has_documentation |-> b[2].doc,
                  complexity_category |-> IF complexity <= 5 THEN "Simple"
                                          ELSE IF complexity <= 10 THEN "Moderate"
                                          ELSE "Complex",
                  needs_refactoring |-> complexity > 10 \/ b[2].len > 50])))],
    LAMBDA all :
        Prefix(SortDesc(all, LAMBDA a : a.complexity_score), TopFunctions)))

\* _analyze_functions.  complexity_map is keyed by name: the last block of a name wins.
_analyze_functions(ch, walk, d, dirs) ==
    Bind(Blocks(Parsed(PythonFiles(SourceFiles(ch, walk)), dirs)),
    LAMBDA blocks :
    Bind([i \in 1..Len(blocks) |->
             Bind(blocks[i],
             LAMBDA b :
             Bind(FileOf(b[1]).funcs,
             LAMBDA fs :
             Bind(fs[CHOOSE k \in 1..Len(fs) :
                        /\ fs[k].name = b[2].name
                        /\ \A j \in (k + 1)..Len(fs) : fs[j].name # b[2].name].cx,
             LAMBDA complexity :
                 [file_path |-> Relpath(b[1], d),
                  function_name |-> b[2].name,
                  complexity_score |-> complexity,
                  lines_of_code |-> b[2].len,
                  has_documentation |-> b[2].doc,
                  complexity_category |-> IF complexity <= 5 THEN "Simple"
                                          ELSE IF complexity <= 10 THEN "Moderate"
                                          ELSE "Complex",
                  needs_refactoring |-> complexity > 10 \/ b[2].len > 50])))],
    LAMBDA all :
        Prefix(SortDesc(SelectSeq(all, LAMBDA a : \/ a.needs_refactoring
                                                  \/ a.complexity_score > 8
                                                  \/ ~a.has_documentation
                                                  \/ a.lines_of_code > 30),
                        LAMBDA a : a.complexity_score), TopFunctions)))

CacheAttrs ==
    {"_cached_source_files", "_cached_total_lines", "_cached_complex_functions",
     "_cached_duplication_pct"}

\* setattr(self, attr, value)
SetAttr(ch, attr, value) ==
    [a \in DOMAIN ch \cup {attr} |-> IF a = attr THEN value ELSE ch[a]]

\* _cleanup_cache
_cleanup_cache(ch) == [a \in DOMAIN ch \ CacheAttrs |-> ch[a]]

\* {**a, **b}
Merge(a, b) == [k \in DOMAIN a \cup DOMAIN b |-> IF k \in DOMAIN b THEN b[k] ELSE a[k]]

\* The eight analysis steps of analyze_repository, in order.
Stages == <<"language", "lines", "complexity", "maintainability", "duplication",
            "debt", "files", "functions">>

\* what step `st` of analyze_repository computes, reading the scanner's attributes ch
StageResult(st, ch, walk, d, dirs) ==
    CASE st = "language" -> _analyze_language_distribution(walk, dirs)
      [] st = "lines" -> _enhanced_lines_analysis(ch, walk, dirs)
      [] st = "complexity" -> _enhanced_complexity_analysis(ch, walk, dirs)
      [] st = "maintainability" -> _enhanced_maintainability_analysis(ch, walk, dirs)
      [] st = "duplication" -> _enhanced_duplication_analysis(ch, walk, dirs)
      [] st = "debt" -> _enhanced_technical_debt_analysis(ch, walk, dirs)
      [] st = "files" -> [file_analyses |-> _analyze_files(ch, walk, d, dirs)]
      [] st = "functions" -> [function_analyses |-> _analyze_functions(ch, walk, d, dirs)]

\* the attribute analyze_repository sets after step `st`
StageCache(st, ch, r) ==
    CASE st = "language" -> SetAttr(ch, "_cached_source_files", Get(r, "source_files", <<>>))
      [] st = "lines" -> SetAttr(ch, "_cached_total_lines", Get(r, "total_lines", 0))
      [] st = "complexity" ->
            SetAttr(ch, "_cached_complex_functions", Get(r, "high_complexity_functions", <<>>))
      [] st = "duplication" ->
            SetAttr(ch, "_cached_duplication_pct", Get(r, "duplication_percentage", RInt(0)))
      [] OTHER -> ch

\* analysis_results = {**language_results, ..., 'file_analyses': ..., 'function_analyses': ...}
RECURSIVE Combine(_, _)
Combine(lc, n) ==
    IF n = 0 THEN <<>> ELSE Merge(Combine(lc, n - 1), lc[Stages[n]])

\* analyze_repository on a scanner no other invocation touches: the steps in
\* order, each reading the attributes the steps before it set.
RECURSIVE AloneRun(_, _, _)
AloneRun(d, tr, n) ==
    IF n = 0 THEN [ch |-> <<>>, lc |-> <<>>]
    ELSE Bind(AloneRun(d, tr, n - 1),
         LAMBDA prev :
         Bind(StageResult(Stages[n], prev.ch, Walk(d, tr, {d}), d, {d}),
         LAMBDA r :
             [ch |-> StageCache(Stages[n], prev.ch, r),
              lc |-> SetAttr(prev.lc, Stages[n], r)]))

AloneResult(d, tr) == Combine(AloneRun(d, tr, Len(Stages)).lc, Len(Stages))

-----------------------------------------------------------------------------
(* MultiLanguageAnalyzer *)

\* the keys of complexity_analyzers
complexity_analyzers ==
    {"Python", "JavaScript", "TypeScript", "Java", "C++", "C", "C#", "Go", "Rust", "PHP", "Ruby"}

\* an analysis_method string: a fixed text, or an f-string and the language in it
Method(text, language) == <<text, language>>

\* Path(repo_path).rglob('*' + ext) for each extension in turn
_get_files_by_extension(walk, extensions) ==
    Concat([k \in 1..Len(extensions) |->
        SelectSeq(walk, LAMBDA p : FileOf(p).ext = extensions[k])])

\* the loop of _analyze_files_with_patterns with `break` where it has `continue`:
\* the first file that cannot be opened ends the analysis
RECURSIVE AnalyzeUntilFailure(_, _)
AnalyzeUntilFailure(files, dirs) ==
    IF files = <<>> \/ ~CanRead(Head(files), dirs) THEN <<>>
    ELSE [j \in 1..Len(FileOf(Head(files)).funcs) |-> FileOf(Head(files)).funcs[j].cx]
         \o AnalyzeUntilFailure(Tail(files), dirs)

\* _analyze_files_with_patterns: the complexity of every function the patterns
\* find, a file that cannot be opened contributing none
_analyze_files_with_patterns(files, dirs) ==
    Concat([i \in 1..Len(files) |->
        IF CanRead(files[i], dirs)
        THEN [j \in 1..Len(FileOf(files[i]).funcs) |-> FileOf(files[i]).funcs[j].cx]
        ELSE <<>>])

\* _calculate_avg_file_size: len(f.readlines()) over the files that open
_calculate_avg_file_size(files, dirs) ==
    Bind(SelectSeq(files, LAMBDA p : CanRead(p, dirs)),
    LAMBDA opened :
        Rat(SumSeq([i \in 1..Len(opened) |->
                FileOf(opened[i]).blank + FileOf(opened[i]).comment + FileOf(opened[i]).code]),
            Max(Len(opened), 1)))

\* the metrics with `if score <= 10` where the code has `elif`: a simple function
\* is counted as moderate too
ComplexityMetricsOverlapping(complexity_scores, analysis_method) ==
    IF complexity_scores = <<>>
    THEN [average_complexity |-> RInt(0),
          complexity_distribution |-> [simple |-> 0, moderate |-> 0, complex |-> 0],
          total_functions |-> 0,
          complexity_min |-> RInt(0), complexity_max |-> RInt(0),
          analysis_method |-> analysis_method]
    ELSE [average_complexity |-> Rat(SumSeq(complexity_scores), Len(complexity_scores)),
          complexity_distribution |->
              [simple |-> Count(complexity_scores, LAMBDA c : c <= 5),
               moderate |-> Count(complexity_scores, LAMBDA c : c <= 10),
               complex |-> Count(complexity_scores, LAMBDA c : c > 10)],
          total_functions |-> Len(complexity_scores),
          complexity_min |-> RInt(MinSeq(complexity_scores)),
          complexity_max |-> RInt(MaxSeq(complexity_scores)),
          analysis_method |-> analysis_method]

\* _calculate_complexity_metrics
_calculate_complexity_metrics(complexity_scores, analysis_method) ==
    IF complexity_scores = <<>>
    THEN [average_complexity |-> RInt(0),
          complexity_distribution |-> [simple |-> 0, moderate |-> 0, complex |-> 0],
          total_functions |-> 0,
          complexity_min |-> RInt(0), complexity_max |-> RInt(0),
          analysis_method |-> analysis_method]
    ELSE [average_complexity |-> Rat(SumSeq(complexity_scores), Len(complexity_scores)),
          complexity_distribution |->
              [simple |-> Count(complexity_scores, LAMBDA c : c <= 5),
               moderate |-> Count(complexity_scores, LAMBDA c : c > 5 /\ c <= 10),
               complex |-> Count(complexity_scores, LAMBDA c : c > 10)],
          total_functions |-> Len(complexity_scores),
          complexity_min |-> RInt(MinSeq(complexity_scores)),
          complexity_max |-> RInt(MaxSeq(complexity_scores)),
          analysis_method |-> analysis_method]

\* the per-language heuristic tier: the extensions it globs, the text of its
\* analysis_method, and the three numbers of its maintainability formula
\* mi = 100 - avg_complexity * weight - max(0, avg_file_size - offset) / scale
Heuristic(exts, text, weight, offset, scale) ==
    [extensions |-> exts, method |-> text, weight |-> weight, offset |-> offset, scale |-> scale]

HeuristicOf(language) ==
    CASE language \in {"JavaScript", "TypeScript"} ->
            Heuristic(<<"js", "jsx", "ts", "tsx">>, Method("JavaScript regex analysis", ""),
                      RInt(3), 100, 20)
      [] language = "Java" ->
            Heuristic(<<"java">>, Method("Java regex analysis", ""), RInt(4), 150, 15)
      [] language \in {"C++", "C"} ->
            Heuristic(<<"cpp", "c", "cc", "cxx", "h", "hpp">>, Method("C/C++ regex analysis", ""),
                      RInt(5), 120, 25)
      [] language = "Go" ->
            Heuristic(<<"go">>, Method("Go regex analysis", ""), RInt(6), 80, 30)
      [] language = "C#" ->
            Heuristic(<<"cs">>, Method("C# regex analysis", ""), RInt(4), 200, 12)
      [] language = "Rust" ->
            Heuristic(<<"rs">>, Method("Rust regex analysis", ""), Rat(35, 10), 100, 25)
      [] language = "PHP" ->
            Heuristic(<<"php">>, Method("PHP regex analysis", ""), Rat(35, 10), 120, 20)
      [] language = "Ruby" ->
            Heuristic(<<"rb">>, Method("Ruby regex analysis", ""), RInt(3), 150, 18)
      [] OTHER ->
            \* analyze_universal_complexity: LANGUAGE_CONFIG holds only languages
            \* that complexity_analyzers dispatches elsewhere, so the default
            \* configuration is the one it runs with
            Heuristic(<<"txt">>, Method("Universal {language} analysis", language),
                      RInt(4), 100, 20)

\* the maintainability formula returned as computed, without max(0.0, min(100.0, mi))
MaintainabilityUnclamped(h, files, complexity_scores, dirs) ==
    IF files = <<>> \/ complexity_scores = <<>> THEN RInt(0)
    ELSE Bind(Rat(SumSeq(complexity_scores), Len(complexity_scores)),
         LAMBDA avg_complexity :
         Bind(_calculate_avg_file_size(files, dirs),
         LAMBDA avg_file_size :
         Bind(RSub(RSub(RInt(100), RMul(avg_complexity, h.weight)),
                   RDivInt(RMax(RInt(0), RSub(avg_file_size, RInt(h.offset))), h.scale)),
         LAMBDA mi :
             mi)))

\* _calculate_<language>_maintainability
_calculate_maintainability(h, files, complexity_scores, dirs) ==
    IF files = <<>> \/ complexity_scores = <<>> THEN RInt(0)
    ELSE Bind(Rat(SumSeq(complexity_scores), Len(complexity_scores)),
         LAMBDA avg_complexity :
         Bind(_calculate_avg_file_size(files, dirs),
         LAMBDA avg_file_size :
         Bind(RSub(RSub(RInt(100), RMul(avg_complexity, h.weight)),
                   RDivInt(RMax(RInt(0), RSub(avg_file_size, RInt(h.offset))), h.scale)),
         LAMBDA mi :
             RMax(RInt(0), RMin(RInt(100), mi)))))

\* analyze_<language>_regex_complexity and analyze_universal_complexity
analyze_regex_complexity(language, walk, dirs) ==
    Bind(HeuristicOf(language),
    LAMBDA h :
    Bind(_get_files_by_extension(walk, h.extensions),
    LAMBDA files :
    Bind(_analyze_files_with_patterns(files, dirs),
    LAMBDA complexity_scores :
        Merge(_calculate_complexity_metrics(complexity_scores, h.method),
              [maintainability_index |->
                   _calculate_maintainability(h, files, complexity_scores, dirs)]))))

\* analyze_python_complexity with radon importable.  mi_visit(code, multi=True)
\* returns one float; iterating it raises TypeError, which the bare except
\* around it swallows: maintainability_scores stays empty whatever the files.
analyze_python_complexity(walk, dirs) ==
    Bind(Blocks(Parsed(_get_files_by_extension(walk, <<"py">>), dirs)),
    LAMBDA blocks :
    Bind([i \in 1..Len(blocks) |-> blocks[i][2].cx],
    LAMBDA complexity_scores :
    Bind(<<>>,
    LAMBDA maintainability_scores :
        [average_complexity |-> Rat(SumSeq(complexity_scores), Max(Len(complexity_scores), 1)),
         maintainability_index |->
             RDivInt(RSumSeq(maintainability_scores), Max(Len(maintainability_scores), 1)),
         complexity_distribution |->
             [simple |-> Count(complexity_scores, LAMBDA c : c <= 5),
              moderate |-> Count(complexity_scores, LAMBDA c : c > 5 /\ c <= 10),
              complex |-> Count(complexity_scores, LAMBDA c : c > 10)],
         total_functions |-> Len(complexity_scores),
         complexity_min |-> IF complexity_scores = <<>> THEN RInt(0)
                            ELSE RInt(MinSeq(complexity_scores)),
         complexity_max |-> IF complexity_scores = <<>> THEN RInt(0)
                            ELSE RInt(MaxSeq(complexity_scores)),
         analysis_method |-> Method("Radon (Python AST analysis)", "")])))

\* _standardize_result
_standardize_result(result, language) ==
    Bind(Get(result, "complexity_distribution", <<>>),
    LAMBDA dist :
        [average_complexity |-> Get(result, "average_complexity", RInt(0)),
         maintainability_index |-> Get(result, "maintainability_index", RInt(0)),
         complexity_distribution |->
             Get(result, "complexity_distribution", [simple |-> 0, moderate |-> 0, complex |-> 0]),
         total_functions |-> Get(result, "total_functions", 0),
         analysis_method |-> Get(result, "analysis_method", Method("{language} analysis", language)),
         complexity_min |-> Get(result, "complexity_min", RInt(0)),
         complexity_max |-> Get(result, "complexity_max", RInt(0)),
         simple_functions |-> Get(dist, "simple", 0),
         moderate_functions |-> Get(dist, "moderate", 0),
         complex_functions |-> Get(dist, "complex", 0)])

\* get_default_result
get_default_result(language) ==
    [average_complexity |-> RInt(0),
     maintainability_index |-> RInt(0),
     complexity_distribution |-> [simple |-> 0, moderate |-> 0, complex |-> 0],
     total_functions |-> 0,
     complexity_min |-> RInt(0), complexity_max |-> RInt(0),
     simple_functions |-> 0, moderate_functions |-> 0, complex_functions |-> 0,
     analysis_method |-> Method("Default {language} analysis (failed)", language)]

-----------------------------------------------------------------------------
\* the external tool an analyzer of complexity_analyzers tries first
ToolOf(language) ==
    CASE language \in {"JavaScript", "TypeScript"} -> "eslint"
      [] language = "Java" -> "pmd"
      [] language \in {"C++", "C"} -> "cppcheck"
      [] language = "Go" -> "gocyclo"
      [] language = "Rust" -> "clippy"
      [] OTHER -> "none"

\* the method each _try_<tool>_analysis hands the tool's output to
ParserOf(toolname) ==
    CASE toolname = "eslint" -> "_parse_eslint_complexity"
      [] toolname = "pmd" -> "_parse_pmd_complexity"
      [] toolname = "cppcheck" -> "_parse_cppcheck_results"
      [] toolname = "gocyclo" -> "_parse_gocyclo_results"
      [] toolname = "clippy" -> "_parse_clippy_results"

\* ... and the ones among them that class MultiLanguageAnalyzer defines
DefinedParsers == {"_parse_eslint_complexity"}

\* What subprocess.run does: the executable is missing (FileNotFoundError), the
\* run exceeds timeout=120 (TimeoutExpired), or it returns with an exit status
\* and an output that is empty, not parseable, or well-formed.
ToolOutcomes ==
    {[kind |-> k, exit |-> 0, out |-> "empty"] : k \in {"missing", "timeout"}}
    \cup [kind : {"ran"}, exit : {0, 1}, out : {"empty", "malformed", "wellformed"}]

\* the complexity messages of a well-formed ESLint report: one per function
\* above the configured maximum of 1, in the .js files ESLint lints
EslintReport(walk, dirs) ==
    LET js == SelectSeq(walk, LAMBDA p : FileOf(p).ext = "js" /\ CanRead(p, dirs))
        all == Concat([i \in 1..Len(js) |->
                   [j \in 1..Len(FileOf(js[i]).funcs) |-> FileOf(js[i]).funcs[j].cx]])
    IN  SelectSeq(all, LAMBDA c : c > 1)

\* _parse_eslint_complexity; <<>> stands for None
_parse_eslint_complexity(complexity_scores) ==
    IF complexity_scores = <<>> THEN <<>>
    ELSE _calculate_complexity_metrics(complexity_scores,
                                       Method("ESLint complexity analysis", ""))

\* the tool tier without the `if not complexity_scores: return None` of the
\* parser: an output with no complexity message yields a result of no functions
TryToolKeepingEmpty(toolname, o, report) ==
    IF o.kind # "ran" THEN <<>>
    ELSE IF o.out = "malformed" THEN <<>>
    ELSE IF ParserOf(toolname) \notin DefinedParsers THEN <<>>
    ELSE _calculate_complexity_metrics(IF o.out = "empty" THEN <<>> ELSE report,
                                       Method("ESLint complexity analysis", ""))

\* _try_eslint_analysis, _try_pmd_analysis, _try_cppcheck_analysis,
\* _try_gocyclo_analysis, _try_clippy_analysis from subprocess.run on: every
\* exception ends in `pass` and None (<<>>) is returned
TryTool(toolname, o, report) ==
    IF o.kind # "ran" THEN <<>>
    ELSE IF o.out = "empty" THEN <<>>
    ELSE IF o.out = "malformed" THEN <<>>
    ELSE IF ParserOf(toolname) \notin DefinedParsers THEN <<>>
    ELSE _parse_eslint_complexity(report)

\* the temporary ESLint configuration written under the analysed root
EslintConfig == ".eslintrc.temp.json"

\* what _try_eslint_analysis leaves under the root: the configuration is
\* unlinked only when subprocess.run returns
EslintLeftover(dirs, o) ==
    IF dirs # {} /\ o.kind # "ran" THEN {EslintConfig} ELSE {}

\* MultiLanguageAnalyzer.analyze_complexity_for_language as one function of the
\* tree and of what the external tool does.  No exception reaches its outer
\* handler: every tier catches its own.
analyze_complexity_for_language(language, walk, dirs, o) ==
    IF language = "Python"
    THEN _standardize_result(analyze_python_complexity(walk, dirs), language)
    ELSE Bind(IF language \notin complexity_analyzers \/ ToolOf(language) = "none" THEN <<>>
              ELSE IF ToolOf(language) = "eslint" /\ dirs = {} THEN <<>>
              ELSE TryTool(ToolOf(language), o, EslintReport(walk, dirs)),
         LAMBDA exact :
             _standardize_result(
                 IF exact # <<>> THEN exact
                 ELSE analyze_regex_complexity(language, walk, dirs), language))

-----------------------------------------------------------------------------
(* analyze_repository as background threads run it on the one code_scanner *)

Threads == {1, 2}

Other(t) == CHOOSE u \in Threads : u # t

\* no external tool was run
NoTool == [kind |-> "none", exit |-> 0, out |-> "empty"]

LangIdle ==
    /\ lpc = "off" /\ lrepo = <<>> /\ lroot = TRUE /\ lang = "Unknown"
    /\ tool = NoTool /\ tree = {} /\ toolres = <<>>
    /\ lres = <<>> /\ detected = None

PerformIdle ==
    /\ spc = "off" /\ srepo = <<>> /\ stool = NoTool /\ sres = <<>> /\ sscore = <<>>
    /\ slang = None /\ sstatus = "pending"

ScoreIdle == umetrics = <<>> /\ understanding = <<>> /\ before = <<>>

PriorityIdle == pmetrics = <<>> /\ pscore = 0 - 1 /\ plevel = ""

RegexIdle ==
    /\ hpc = "idle" /\ hlang = "Unknown" /\ hreadable = FALSE /\ hcontent = <<>>
    /\ hmatches = <<>> /\ hbodies = <<>> /\ hscores = <<>>

\* The number of scan requests sent for the repository.
MaxRequests == 2

Requests == 1..MaxRequests

AppIdle ==
    /\ rstatus = "pending" /\ rrows = {}
    /\ rpc = [q \in Requests |-> "off"]
    /\ wpc = [q \in Requests |-> "off"]
    /\ wsession = [q \in Requests |-> {}]

ScanIdle ==
    /\ cache = <<>> /\ tempdirs = {}
    /\ pc = [t \in Threads |-> "off"]
    /\ repo = [t \in Threads |-> <<>>]
    /\ loc = [t \in Threads |-> <<>>]
    /\ ret = [t \in Threads |-> <<>>]

ScanInit ==
    /\ cache = <<>>
    /\ tempdirs = {}
    /\ pc = [t \in Threads |-> "idle"]
    /\ repo \in {r \in [Threads -> ScanRepos] : r[2] \in OtherRepos}
    /\ loc = [t \in Threads |-> <<>>]
    /\ ret = [t \in Threads |-> <<>>]
    /\ LangIdle
    /\ PerformIdle
    /\ ScoreIdle /\ PriorityIdle /\ RegexIdle /\ AppIdle

\* _clone_repository succeeds: the temporary directory holds the tree
CloneOk(t) ==
    /\ pc[t] = "idle"
    /\ tempdirs' = tempdirs \cup {t}
    /\ pc' = [pc EXCEPT ![t] = "language"]
    /\ UNCHANGED <<cache, repo, loc, ret>>

\* _clone_repository fails after mkdtemp: it returns None, analyze_repository
\* returns the error dictionary
CloneFails(t) ==
    /\ pc[t] = "idle"
    /\ tempdirs' = tempdirs \cup {t}
    /\ ret' = [ret EXCEPT ![t] = [error |-> "Failed to clone repository"]]
    /\ pc' = [pc EXCEPT ![t] = "done"]
    /\ UNCHANGED <<cache, repo, loc>>

NextPc(st) ==
    IF st = Stages[Len(Stages)] THEN "combine"
    ELSE Stages[(CHOOSE i \in 1..Len(Stages) : Stages[i] = st) + 1]

\* one analysis step and the attribute assignment that follows it
RunStage(t, st) ==
    /\ pc[t] = st
    /\ Bind(StageResult(st, cache, Walk(t, repo[t], tempdirs), t, tempdirs),
            LAMBDA r :
                /\ loc' = [loc EXCEPT ![t] = SetAttr(loc[t], st, r)]
                /\ cache' = StageCache(st, cache, r))
    /\ pc' = [pc EXCEPT ![t] = NextPc(st)]
    /\ UNCHANGED <<tempdirs, repo, ret>>

LanguageStage(t) == RunStage(t, "language")
LinesStage(t) == RunStage(t, "lines")
ComplexityStage(t) == RunStage(t, "complexity")
MaintainabilityStage(t) == RunStage(t, "maintainability")
DuplicationStage(t) == RunStage(t, "duplication")
DebtStage(t) == RunStage(t, "debt")
FilesStage(t) == RunStage(t, "files")
FunctionsStage(t) == RunStage(t, "functions")

\* the results are combined and self._cleanup_cache() runs
CombineAndCleanup(t) ==
    /\ pc[t] = "combine"
    /\ loc' = [loc EXCEPT ![t] = [analysis_results |-> Combine(loc[t], Len(Stages))]]
    /\ cache' = _cleanup_cache(cache)
    /\ pc' = [pc EXCEPT ![t] = "finally"]
    /\ UNCHANGED <<tempdirs, repo, ret>>

\* finally: shutil.rmtree(temp_dir); the call returns analysis_results
RemoveAndReturn(t) ==
    /\ pc[t] = "finally"
    /\ tempdirs' = tempdirs \ {t}
    /\ ret' = [ret EXCEPT ![t] = loc[t].analysis_results]
    /\ pc' = [pc EXCEPT ![t] = "done"]
    /\ UNCHANGED <<cache, repo, loc>>

ScanNext ==
    /\ \E t \in Threads :
        \/ CloneOk(t)
        \/ CloneFails(t)
        \/ LanguageStage(t)
        \/ LinesStage(t)
        \/ ComplexityStage(t)
        \/ MaintainabilityStage(t)
        \/ DuplicationStage(t)
        \/ DebtStage(t)
        \/ FilesStage(t)
        \/ FunctionsStage(t)
        \/ CombineAndCleanup(t)
        \/ RemoveAndReturn(t)
    /\ UNCHANGED langVars
    /\ UNCHANGED performVars
    /\ UNCHANGED <<scoreVars, priorityVars, regexVars, appVars>>

SpecScan == ScanInit /\ [][ScanNext]_vars

\* the invocation of thread t returned a result, not an error dictionary
Returned(t) == pc[t] = "done" /\ "error" \notin DOMAIN ret[t]

\* the invocation of thread t ran with no other invocation started
RanAlone(t) == Returned(t) /\ pc[Other(t)] = "idle"

\* C1: concurrent analyze_repository invocations never interfere: whatever the
\* interleaving, an invocation returns the result it returns when it runs alone
\* (same source file list, line totals, duplication percentage, complex-function
\* list and debt figures).
C1_NoInterference ==
    \A t \in Threads : Returned(t) => ret[t] = AloneResult(t, repo[t])

\* C2: complexity_debt_minutes is 15 times the number of complex functions, for
\* any number of complex functions.
C2_ComplexityDebt ==
    \A t \in Threads :
        RanAlone(t) =>
            ret[t].complexity_debt_minutes = ComplexityDebtMinutes * ret[t].complex_functions

\* the File Classifier finds no matching source file in the tree: every file with
\* an extension of its language table has zero non-blank lines
NoMatchingSourceFiles(tr) ==
    \A i \in 1..Len(tr) :
        Catalogue[tr[i]].ext \in DOMAIN language_map =>
            Catalogue[tr[i]].comment + Catalogue[tr[i]].code = 0

AllMetricsZero(r) ==
    /\ r.total_lines = 0 /\ r.code_lines = 0 /\ r.comment_lines = 0 /\ r.blank_lines = 0
    /\ r.complexity_score = RInt(0) /\ r.complexity_min = RInt(0)
    /\ r.complexity_max = RInt(0) /\ r.total_functions = 0
    /\ r.duplication_percentage = RInt(0)
    /\ r.technical_debt_minutes = 0 /\ r.duplication_debt_minutes = 0
    /\ r.complexity_debt_minutes = 0 /\ r.documentation_debt_minutes = 0
    /\ r.long_function_debt_minutes = 0 /\ r.quality_debt_minutes = 0
    /\ r.file_analyses = <<>> /\ r.function_analyses = <<>>

\* C5: when the File Classifier finds no matching source files the analysis is not
\* an error and every metric of the result is zero or empty.
C5_EmptyInputAllZero ==
    \A t \in Threads :
        (pc[t] = "done" /\ pc[Other(t)] = "idle" /\ tempdirs = {}
         /\ NoMatchingSourceFiles(repo[t]))
            => (Returned(t) /\ AllMetricsZero(ret[t]))

-----------------------------------------------------------------------------
(* detect_primary_language and analyze_complexity_for_language on one root *)

\* The number of files a tree of the language-analysis specification holds at most.
MaxLangFiles == 2

\* the catalogue files those trees are made of, in os.walk order
LangTreeFiles == <<1, 3, 6, 7, 8, 9, 10, 11, 12, 13, 14, Len(Catalogue)>>

LangRepos ==
    {[i \in 1..Len(s) |-> LangTreeFiles[s[i]]] :
        s \in SubSeqsUpTo(Len(LangTreeFiles), MaxLangFiles)}

\* primary_language: the keys of complexity_analyzers and two strings outside them
Languages == complexity_analyzers \cup {"Swift", "Unknown"}

\* repo_path
RootDir == 0
LangDirs == IF lroot THEN {RootDir} ELSE {}
LangWalk == Walk(RootDir, lrepo, LangDirs)

LangInit ==
    /\ lpc = "detect"
    /\ lroot \in BOOLEAN
    /\ lrepo \in LangRepos
    /\ (~lroot => lrepo = <<>>)
    /\ lang \in Languages
    /\ tool = NoTool /\ tree = {} /\ toolres = <<>> /\ lres = <<>>
    /\ detected = None
    /\ ScanIdle
    /\ PerformIdle
    /\ ScoreIdle /\ PriorityIdle /\ RegexIdle /\ AppIdle

\* detect_primary_language(repo_path) on a local path
DetectPrimaryLanguage ==
    /\ lpc = "detect"
    /\ detected' = IF lroot
                   THEN _analyze_language_distribution(LangWalk, LangDirs).primary_language
                   ELSE "Unknown"
    /\ lpc' = "start"
    /\ UNCHANGED <<lrepo, lroot, lang, tool, tree, toolres, lres>>

\* analyze_complexity_for_language: the dispatch on primary_language
Dispatch ==
    /\ lpc = "start"
    /\ lpc' = IF lang \notin complexity_analyzers THEN "universal"
              ELSE IF lang = "Python" THEN "python"
              ELSE IF ToolOf(lang) = "eslint" THEN "eslint_config"
              ELSE IF ToolOf(lang) # "none" THEN "tool"
              ELSE "regex"
    /\ UNCHANGED <<lrepo, lroot, lang, tool, tree, toolres, lres, detected>>

\* _try_eslint_analysis: open(config_path, 'w'); a missing root makes it raise
WriteEslintConfig ==
    /\ lpc = "eslint_config"
    /\ IF lroot
       THEN tree' = tree \cup {EslintConfig} /\ lpc' = "eslint_run"
       ELSE tree' = tree /\ lpc' = "regex"
    /\ UNCHANGED <<lrepo, lroot, lang, tool, toolres, lres, detected>>

\* _try_eslint_analysis: subprocess.run, the clean-up and the parse
RunEslint ==
    /\ lpc = "eslint_run"
    /\ \E o \in ToolOutcomes :
        /\ tool' = o
        /\ tree' = IF o.kind = "ran" THEN tree \ {EslintConfig} ELSE tree
        /\ toolres' = TryTool("eslint", o, EslintReport(LangWalk, LangDirs))
        /\ lpc' = IF toolres' # <<>> THEN "standardize" ELSE "regex"
    /\ UNCHANGED <<lrepo, lroot, lang, lres, detected>>

\* _try_pmd_analysis, _try_cppcheck_analysis, _try_gocyclo_analysis,
\* _try_clippy_analysis
RunTool ==
    /\ lpc = "tool"
    /\ \E o \in ToolOutcomes :
        /\ tool' = o
        /\ toolres' = TryTool(ToolOf(lang), o, <<>>)
        /\ lpc' = IF toolres' # <<>> THEN "standardize" ELSE "regex"
    /\ UNCHANGED <<lrepo, lroot, lang, tree, lres, detected>>

\* analyze_python_complexity (radon is imported: scanner.py imports it at load)
AnalyzePython ==
    /\ lpc = "python"
    /\ toolres' = analyze_python_complexity(LangWalk, LangDirs)
    /\ lpc' = "standardize"
    /\ UNCHANGED <<lrepo, lroot, lang, tool, tree, lres, detected>>

\* the regex analyzer of a language of complexity_analyzers
RegexAnalysis ==
    /\ lpc = "regex"
    /\ toolres' = analyze_regex_complexity(lang, LangWalk, LangDirs)
    /\ lpc' = "standardize"
    /\ UNCHANGED <<lrepo, lroot, lang, tool, tree, lres, detected>>

\* analyze_universal_complexity
UniversalAnalysis ==
    /\ lpc = "universal"
    /\ toolres' = analyze_regex_complexity(lang, LangWalk, LangDirs)
    /\ lpc' = "standardize"
    /\ UNCHANGED <<lrepo, lroot, lang, tool, tree, lres, detected>>

\* return self._standardize_result(result, primary_language)
Standardize ==
    /\ lpc = "standardize"
    /\ lres' = _standardize_result(toolres, lang)
    /\ lpc' = "done"
    /\ UNCHANGED <<lrepo, lroot, lang, tool, tree, toolres, detected>>

LangNext ==
    /\ \/ DetectPrimaryLanguage
       \/ Dispatch
       \/ WriteEslintConfig
       \/ RunEslint
       \/ RunTool
       \/ AnalyzePython
       \/ RegexAnalysis
       \/ UniversalAnalysis
       \/ Standardize
    /\ UNCHANGED scanVars
    /\ UNCHANGED performVars
    /\ UNCHANGED <<scoreVars, priorityVars, regexVars, appVars>>

SpecLang == LangInit /\ [][LangNext]_vars

\* the step-by-step run returns what the function of the inputs returns
LangAgrees ==
    lpc = "done" => lres = analyze_complexity_for_language(lang, LangWalk, LangDirs, tool)

\* the call reported a failure: an error entry, or the default result whose
\* analysis_method says the analysis failed
ReportsFailure(r) ==
    \/ "error" \in DOMAIN r
    \/ r.analysis_method[1] = "Default {language} analysis (failed)"

\* C6: a missing or unreadable root is reported as an explicit error by
\* detect_primary_language and analyze_complexity_for_language, and nothing
\* else makes them fail.
C6_MissingRootIsError ==
    lpc = "done" =>
        /\ (ReportsFailure(lres) <=> ~lroot)
        /\ (~lroot => detected \notin Languages)

\* C7: whichever way the external tool ends, analyze_complexity_for_language
\* leaves the analysed tree as it found it.
C7_TreeUnchanged == lpc = "done" => tree = {}

\* what the heuristic tier alone returns for the call's inputs
HeuristicResult ==
    _standardize_result(analyze_regex_complexity(lang, LangWalk, LangDirs), lang)

HasComplexityData ==
    IF ToolOf(lang) = "eslint" THEN EslintReport(LangWalk, LangDirs) # <<>>
    ELSE _analyze_files_with_patterns(
             _get_files_by_extension(LangWalk, HeuristicOf(lang).extensions), LangDirs) # <<>>

\* C9: for a language with an external tool, a tool that succeeds with
\* well-formed complexity data makes the call return a result built from the
\* parsed output, not the heuristic tier's.
C9_ExactTierUsed ==
    (/\ lpc = "done"
     /\ ToolOf(lang) # "none"
     /\ tool.kind = "ran" /\ tool.exit = 0 /\ tool.out = "wellformed"
     /\ HasComplexityData)
        => lres.analysis_method # HeuristicOf(lang).method

StandardKeys ==
    {"average_complexity", "maintainability_index", "complexity_distribution",
     "total_functions", "analysis_method", "complexity_min", "complexity_max",
     "simple_functions", "moderate_functions", "complex_functions"}

\* the extensions of the files a per-file tier of the language reads
PerFileExtensions ==
    IF lang = "Python" THEN <<"py">> ELSE HeuristicOf(lang).extensions

\* the number of functions in the files of those extensions that can be read
\* and parsed
ReadableFunctions ==
    LET exts == {PerFileExtensions[k] : k \in 1..Len(PerFileExtensions)}
        good == SelectSeq(LangWalk, LAMBDA p : /\ FileOf(p).ext \in exts
                                              /\ FileOf(p).readable
                                              /\ FileOf(p).parses)
    IN  SumSeq([i \in 1..Len(good) |-> Len(FileOf(good[i]).funcs)])

\* a file of those extensions cannot be read
SomeFileFails ==
    \E i \in 1..Len(lrepo) :
        /\ \E k \in 1..Len(PerFileExtensions) : Catalogue[lrepo[i]].ext = PerFileExtensions[k]
        /\ ~Catalogue[lrepo[i]].readable

-----------------------------------------------------------------------------
(* perform_scan: one background scan of a repository *)

\* the maintainability impact with its middle band reaching up to 65
MaintainabilityAdjustmentWideBand(maintainability) ==
    IF RLt(maintainability, RInt(30)) THEN 0 - 25
    ELSE IF RLt(maintainability, RInt(65)) THEN 0 - 18
    ELSE IF RGt(maintainability, RInt(85)) THEN 5
    ELSE 0

\* the maintainability impact with the penalties of its two lowest bands exchanged
MaintainabilityAdjustmentSwapped(maintainability) ==
    IF RLt(maintainability, RInt(30)) THEN 0 - 18
    ELSE IF RLt(maintainability, RInt(50)) THEN 0 - 25
    ELSE IF RGt(maintainability, RInt(85)) THEN 5
    ELSE 0

\* calculate_understanding_score: the maintainability impact
MaintainabilityAdjustment(maintainability) ==
    IF RLt(maintainability, RInt(30)) THEN 0 - 25
    ELSE IF RLt(maintainability, RInt(50)) THEN 0 - 18
    ELSE IF RGt(maintainability, RInt(85)) THEN 5
    ELSE 0

\* the complexity penalty with bands that include their lower limit
ComplexityPenaltyInclusive(complexity) ==
    IF RGe(complexity, RInt(20)) THEN 30
    ELSE IF RGe(complexity, RInt(15)) THEN 20
    ELSE IF RGe(complexity, RInt(10)) THEN 15
    ELSE 0

\* calculate_understanding_score: the complexity penalty
ComplexityPenalty(complexity) ==
    IF RGt(complexity, RInt(20)) THEN 30
    ELSE IF RGt(complexity, RInt(15)) THEN 20
    ELSE IF RGt(complexity, RInt(10)) THEN 15
    ELSE 0

\* calculate_understanding_score
calculate_understanding_score(metrics) ==
    Bind(100,
    LAMBDA base_score :
    Bind(ComplexityPenalty(Get(metrics, "complexity_score", RInt(0))),
    LAMBDA complexity_penalty :
    Bind(MaintainabilityAdjustment(Get(metrics, "maintainability_index", RInt(100))),
    LAMBDA maintainability_adjustment :
    Bind(IF RGt(Get(metrics, "duplication_percentage", RInt(0)), RInt(25)) THEN 25
         ELSE IF RGt(Get(metrics, "duplication_percentage", RInt(0)), RInt(15)) THEN 18
         ELSE IF RGt(Get(metrics, "duplication_percentage", RInt(0)), RInt(5)) THEN 10
         ELSE 0,
    LAMBDA duplication_penalty :
    \* tech_debt_hours = technical_debt_minutes / 60
    Bind(IF Get(metrics, "technical_debt_minutes", 0) > 4 * 60 THEN 15
         ELSE IF Get(metrics, "technical_debt_minutes", 0) > 2 * 60 THEN 10
         ELSE IF Get(metrics, "technical_debt_minutes", 0) > 60 THEN 5
         ELSE 0,
    LAMBDA tech_debt_penalty :
    Bind(IF RLt(Get(metrics, "comment_ratio", RInt(0)), RInt(3)) THEN 0 - 10
         ELSE IF RGt(Get(metrics, "comment_ratio", RInt(0)), RInt(15)) THEN 3
         ELSE IF RGt(Get(metrics, "comment_ratio", RInt(0)), RInt(8)) THEN 1
         ELSE 0,
    LAMBDA documentation_adjustment :
    Bind(Max(0, Min(100, base_score - complexity_penalty + maintainability_adjustment
                         - duplication_penalty - tech_debt_penalty
                         + documentation_adjustment)),
    LAMBDA final_score :
        [score |-> final_score,
         level |-> IF final_score >= 85 THEN "Easy"
                   ELSE IF final_score >= 65 THEN "Moderate"
                   ELSE IF final_score >= 40 THEN "Challenging"
                   ELSE "Difficult",
         base_score |-> base_score,
         complexity_penalty |-> complexity_penalty,
         duplication_penalty |-> duplication_penalty,
         maintainability_bonus |-> Max(0, maintainability_adjustment),
         documentation_bonus |-> Max(0, documentation_adjustment),
         maintainability_penalty |-> Abs(Min(0, maintainability_adjustment)),
         documentation_penalty |-> Abs(Min(0, documentation_adjustment)),
         tech_debt_penalty |-> tech_debt_penalty])))))))

\* the three-file trees made of the scenario files: the file with the function
\* and two files without, small or one of them very long
ScenarioRepos ==
    LET base(k) == Len(ScanFiles) + Len(LangFiles) + 4 * (k - 1)
    IN  {<<base(k) + 1, base(k) + 2, base(k) + 3>> : k \in 1..(Len(ScenarioFiles) \div 4)}
        \cup {<<base(k) + 1, base(k) + 2, base(k) + 4>> : k \in 1..(Len(ScenarioFiles) \div 4)}

PerformRepos == ScanRepos \cup ScenarioRepos

\* the temporary directory of each clone perform_scan makes (one at a time)
ScanDir == 1

\* analysis_result.update({...}) with the language-specific metrics
EnhancedUpdate(analysis_result, enhanced_complexity, primary_language) ==
    Merge(analysis_result,
        [complexity_score |-> Get(enhanced_complexity, "average_complexity",
                                  Get(analysis_result, "complexity_score", RInt(0))),
         maintainability_index |-> Get(enhanced_complexity, "maintainability_index",
                                       Get(analysis_result, "maintainability_index", RInt(0))),
         complexity_min |-> Get(enhanced_complexity, "complexity_min", RInt(0)),
         complexity_max |-> Get(enhanced_complexity, "complexity_max", RInt(0)),
         simple_functions |-> Get(enhanced_complexity, "simple_functions", 0),
         moderate_functions |-> Get(enhanced_complexity, "moderate_functions", 0),
         complex_functions |-> Get(enhanced_complexity, "complex_functions", 0),
         total_functions |-> Get(enhanced_complexity, "total_functions",
                                 Get(analysis_result, "total_functions", 0)),
         analysis_method |-> Get(enhanced_complexity, "analysis_method",
                                 Method("{primary_language} analysis", primary_language)),
         enhanced_analysis |-> TRUE])

PerformInit ==
    /\ spc = "detect"
    /\ srepo \in PerformRepos
    /\ stool = NoTool /\ sres = <<>> /\ sscore = <<>>
    /\ slang = None
    /\ sstatus = "scanning"
    /\ ScanIdle
    /\ LangIdle
    /\ ScoreIdle /\ PriorityIdle /\ RegexIdle /\ AppIdle

\* primary_language = code_scanner.detect_primary_language(repository.github_url):
\* the URL is cloned, or the clone fails
PerformDetect ==
    /\ spc = "detect"
    /\ \E cloned \in BOOLEAN :
        slang' = IF cloned
                 THEN _analyze_language_distribution(
                          Walk(ScanDir, srepo, {ScanDir}), {ScanDir}).primary_language
                 ELSE "Unknown"
    /\ spc' = "analyze"
    /\ UNCHANGED <<srepo, stool, sres, sscore, sstatus>>

\* analysis_result = code_scanner.analyze_repository(repository.github_url)
PerformAnalyze ==
    /\ spc = "analyze"
    /\ \E cloned \in BOOLEAN :
        sres' = IF cloned THEN AloneResult(ScanDir, srepo)
                ELSE [error |-> "Failed to clone repository"]
    /\ spc' = IF slang # "Unknown" THEN "enhance" ELSE "check"
    /\ UNCHANGED <<srepo, stool, sscore, slang, sstatus>>

\* the enhanced analysis: a third clone, analyze_complexity_for_language on it
\* and the update of analysis_result
PerformEnhance ==
    /\ spc = "enhance"
    /\ \/ /\ \E o \in IF ToolOf(slang) = "none" THEN {NoTool} ELSE ToolOutcomes :
               /\ stool' = o
               /\ sres' = EnhancedUpdate(sres,
                              analyze_complexity_for_language(
                                  slang, Walk(ScanDir, srepo, {ScanDir}), {ScanDir}, o),
                              slang)
       \/ \* _clone_repository returned None
          /\ UNCHANGED <<stool, sres>>
    /\ spc' = "check"
    /\ UNCHANGED <<srepo, sscore, slang, sstatus>>

\* if analysis_result.get('error'): the scan ends with status 'error'
PerformCheckError ==
    /\ spc = "check"
    /\ IF "error" \in DOMAIN sres
       THEN sstatus' = "error" /\ spc' = "done"
       ELSE sstatus' = sstatus /\ spc' = "persist"
    /\ UNCHANGED <<srepo, stool, sres, sscore, slang>>

\* the ScanResult row, the understanding score of its columns, status 'completed'
PerformPersist ==
    /\ spc = "persist"
    /\ sscore' = calculate_understanding_score(
           [complexity_score |-> Get(sres, "complexity_score", RInt(0)),
            maintainability_index |-> Get(sres, "maintainability_index", RInt(0)),
            duplication_percentage |-> Get(sres, "duplication_percentage", RInt(0)),
            technical_debt_minutes |-> Get(sres, "technical_debt_minutes", 0),
            comment_ratio |-> Get(sres, "comment_ratio", RInt(0)),
            total_functions |-> Get(sres, "total_functions", 0),
            complex_functions |-> Get(sres, "complex_functions", 0)])
    /\ sstatus' = "completed"
    /\ spc' = "done"
    /\ UNCHANGED <<srepo, stool, sres, slang>>

PerformNext ==
    /\ \/ PerformDetect
       \/ PerformAnalyze
       \/ PerformEnhance
       \/ PerformCheckError
       \/ PerformPersist
    /\ UNCHANGED scanVars
    /\ UNCHANGED langVars
    /\ UNCHANGED <<scoreVars, priorityVars, regexVars, appVars>>

SpecPerform == PerformInit /\ [][PerformNext]_vars

\* the average of the per-file maintainability indices of the Python files of
\* a tree that can be read and parsed (0 when there is none)
AverageFileMi(tr) ==
    LET py == SelectSeq(tr, LAMBDA i : /\ Catalogue[i].ext = "py"
                                       /\ Catalogue[i].readable /\ Catalogue[i].parses)
    IN  IF py = <<>> THEN RInt(0)
        ELSE RDivInt(RSumSeq([k \in 1..Len(py) |-> Catalogue[py[k]].mi]), Len(py))

\* C3: when the primary language is Python, the maintainability_index that
\* perform_scan ends with is the average of the per-file maintainability
\* indices of the Python files (as such, or rounded to a tenth).
C3_PythonMiIsFileAverage ==
    (spc = "done" /\ sstatus = "completed" /\ sres.primary_language = "Python")
        => sres.maintainability_index \in {AverageFileMi(srepo), Round1(AverageFileMi(srepo))}

\* a tree of three files of one language of the language table that holds one
\* function in all, of complexity 12, no comment line and no repeated line
IsScenario(tr) ==
    LET sigs == Concat([i \in 1..Len(tr) |-> Catalogue[tr[i]].sig])
        funcs == Concat([i \in 1..Len(tr) |-> Catalogue[tr[i]].funcs])
    IN  /\ Len(tr) = 3
        /\ \A i \in 1..3 : /\ Catalogue[tr[i]].ext = Catalogue[tr[1]].ext
                            /\ Catalogue[tr[i]].comment = 0
                            /\ Catalogue[tr[i]].readable
        /\ Catalogue[tr[1]].ext \in DOMAIN language_map
        /\ Len(funcs) = 1 /\ funcs[1].cx = 12
        /\ \A i, j \in 1..Len(sigs) : i # j => sigs[i] # sigs[j]

\* a scan of such a tree completed, its language-specific analysis included
ScenarioScanned ==
    /\ spc = "done" /\ sstatus = "completed"
    /\ IsScenario(srepo)
    /\ Get(sres, "enhanced_analysis", FALSE)

-----------------------------------------------------------------------------
(* calculate_understanding_score on the metrics perform_scan passes to it *)

\* Values of each metric on both sides of every band limit of the rubric.
ComplexityValues == {RInt(10), Rat(101, 10), RInt(15), Rat(151, 10), RInt(20), Rat(201, 10)}
MaintainabilityValues == {Rat(299, 10), RInt(30), Rat(499, 10), RInt(50), RInt(85), Rat(851, 10)}
DuplicationValues == {RInt(5), Rat(51, 10), RInt(15), Rat(151, 10), RInt(25), Rat(251, 10)}
DebtMinuteValues == {60, 121, 241}
CommentRatioValues == {Rat(29, 10), RInt(3), Rat(151, 10)}

\* the values a metric of the score can take
MetricValues(k) ==
    CASE k = "complexity_score" -> ComplexityValues
      [] k = "maintainability_index" -> MaintainabilityValues
      [] k = "duplication_percentage" -> DuplicationValues
      [] k = "technical_debt_minutes" -> DebtMinuteValues
      [] k = "comment_ratio" -> CommentRatioValues

\* the metrics the score is claimed to be monotone in
MonotoneMetrics == {"complexity_score", "maintainability_index", "duplication_percentage"}

ScoreInit ==
    /\ umetrics \in [complexity_score : ComplexityValues,
                     maintainability_index : MaintainabilityValues,
                     duplication_percentage : DuplicationValues,
                     technical_debt_minutes : DebtMinuteValues,
                     comment_ratio : CommentRatioValues]
    /\ understanding = <<>>
    /\ before = <<>>
    /\ ScanIdle /\ LangIdle /\ PerformIdle /\ PriorityIdle /\ RegexIdle /\ AppIdle

\* code_scanner.calculate_understanding_score(metrics)
ScoreCall ==
    /\ understanding = <<>>
    /\ understanding' = calculate_understanding_score(umetrics)
    /\ UNCHANGED <<umetrics, before>>

\* the same call again with one metric changed and the others as they were
ScoreCallChanged ==
    /\ understanding # <<>>
    /\ \E k \in MonotoneMetrics :
        \E v \in MetricValues(k) \ {umetrics[k]} :
            /\ before' = [key |-> k, value |-> umetrics[k], score |-> understanding.score]
            /\ umetrics' = [umetrics EXCEPT ![k] = v]
            /\ understanding' = calculate_understanding_score([umetrics EXCEPT ![k] = v])

ScoreNext ==
    /\ \/ ScoreCall
       \/ ScoreCallChanged
    /\ UNCHANGED <<scanVars, langVars, performVars, priorityVars, regexVars, appVars>>

SpecScore == ScoreInit /\ [][ScoreNext]_vars

\* metric k went up (or stayed) between the previous call and this one
WentUp(k) == before # <<>> /\ before.key = k /\ RLe(before.value, umetrics[k])
\* metric k went down (or stayed) between the previous call and this one
WentDown(k) == before # <<>> /\ before.key = k /\ RGe(before.value, umetrics[k])

\* C11: the understanding score is monotone: with the other inputs fixed it does
\* not increase when complexity_score or duplication_percentage goes up, and does
\* not decrease when maintainability_index goes up, the clamp to [0,100] included.
C11_ScoreMonotone ==
    /\ WentUp("complexity_score") => understanding.score <= before.score
    /\ WentDown("complexity_score") => understanding.score >= before.score
    /\ WentUp("duplication_percentage") => understanding.score <= before.score
    /\ WentDown("duplication_percentage") => understanding.score >= before.score
    /\ WentUp("maintainability_index") => understanding.score >= before.score
    /\ WentDown("maintainability_index") => understanding.score <= before.score

\* a higher maintainability index raised the score up to the clamp at 100
C11_Witness ==
    /\ WentUp("maintainability_index")
    /\ before.score < 100
    /\ understanding.score = 100
    /\ understanding.maintainability_bonus = 5

\* the complexity penalty as the rubric words it
RubricComplexityPenalty(c) ==
    IF RGt(c, RInt(20)) THEN 30 ELSE IF RGt(c, RInt(15)) THEN 20
    ELSE IF RGt(c, RInt(10)) THEN 15 ELSE 0

\* the sum of the rubric before it is clamped, from the adjustments the result reports
RubricSum(m, r) ==
    100 - RubricComplexityPenalty(m.complexity_score)
        + (r.maintainability_bonus - r.maintainability_penalty)
        - r.duplication_penalty - r.tech_debt_penalty
        + (r.documentation_bonus - r.documentation_penalty)

\* C12: the score is 100 minus the complexity penalty (>20: 30, >15: 20, >10: 15,
\* else 0) plus the maintainability adjustment minus the duplication and
\* technical-debt penalties plus the documentation adjustment, clamped to [0,100];
\* the level is Easy from 85, Moderate from 65, Challenging from 40, else Difficult.
C12_ScoreRubric ==
    understanding # <<>> =>
        /\ understanding.score \in 0..100
        /\ understanding.complexity_penalty = RubricComplexityPenalty(umetrics.complexity_score)
        /\ understanding.score = Max(0, Min(100, RubricSum(umetrics, understanding)))
        /\ understanding.level = "Easy" <=> understanding.score >= 85
        /\ understanding.level = "Moderate" <=>
               (understanding.score >= 65 /\ understanding.score < 85)
        /\ understanding.level = "Challenging" <=>
               (understanding.score >= 40 /\ understanding.score < 65)
        /\ understanding.level = "Difficult" <=> understanding.score < 40

\* every penalty at its largest: the sum is below 0 and the score is clamped to 0
C12_Witness ==
    /\ understanding # <<>>
    /\ RubricSum(umetrics, understanding) < 0
    /\ understanding.score = 0
    /\ understanding.level = "Difficult"

-----------------------------------------------------------------------------
(* _calculate_file_priority_score and _get_priority_level *)

\* Values of each file metric on both sides of every band limit.
FileComplexityValues == {RInt(5), Rat(51, 10), RInt(10), Rat(101, 10), RInt(15), Rat(151, 10)}
FileMaintainabilityValues == {Rat(299, 10), RInt(30), Rat(499, 10), RInt(50), Rat(699, 10), RInt(70)}
FileDuplicationValues == {RInt(5), Rat(51, 10), RInt(15), Rat(151, 10), RInt(30), Rat(301, 10)}
FileCommentRatioValues == {Rat(29, 10), RInt(3), Rat(79, 10), RInt(8)}
FileLengthValues == {300, 301, 500, 501}

FileMetrics ==
    [complexity_score : FileComplexityValues,
     maintainability_index : FileMaintainabilityValues,
     duplication_percentage : FileDuplicationValues,
     comment_ratio : FileCommentRatioValues,
     lines_of_code : FileLengthValues]

\* the upper end of the priority scale: min(100, score)
MaxPriorityScore == 100

\* Either file metrics, to be scored and then given a tier, or a score on the
\* scale handed to _get_priority_level as it is.
PriorityInit ==
    /\ \/ pmetrics \in FileMetrics /\ pscore = 0 - 1
       \/ pmetrics = <<>> /\ pscore \in 0..MaxPriorityScore
    /\ plevel = ""
    /\ ScanIdle /\ LangIdle /\ PerformIdle /\ ScoreIdle /\ RegexIdle /\ AppIdle

\* priority_score = self._calculate_file_priority_score(file_metrics)
PriorityScore ==
    /\ pmetrics # <<>>
    /\ pscore < 0
    /\ pscore' = _calculate_file_priority_score(pmetrics)
    /\ UNCHANGED <<pmetrics, plevel>>

\* priority_level = self._get_priority_level(priority_score)
PriorityLevel ==
    /\ pscore >= 0
    /\ plevel = ""
    /\ plevel' = _get_priority_level(pscore)
    /\ UNCHANGED <<pmetrics, pscore>>

PriorityNext ==
    /\ \/ PriorityScore
       \/ PriorityLevel
    /\ UNCHANGED <<scanVars, langVars, performVars, scoreVars, regexVars, appVars>>

SpecPriority == PriorityInit /\ [][PriorityNext]_vars

\* the tiers from least to most urgent
TierRank(level) ==
    CASE level = "Low" -> 1 [] level = "Medium" -> 2 [] level = "High" -> 3
      [] level = "Critical" -> 4

\* C13: the priority tier is Critical iff score >= 70, High iff 50 <= score < 70,
\* Medium iff 25 <= score < 50, Low iff score < 25; 69 is High and 70 is Critical;
\* a higher score never gets a lower tier.
C13_PriorityTier ==
    plevel # "" =>
        /\ plevel = "Critical" <=> pscore >= 70
        /\ plevel = "High" <=> (pscore >= 50 /\ pscore < 70)
        /\ plevel = "Medium" <=> (pscore >= 25 /\ pscore < 50)
        /\ plevel = "Low" <=> pscore < 25
        /\ pscore = 69 => plevel = "High"
        /\ pscore = 70 => plevel = "Critical"
        /\ \A higher \in pscore..MaxPriorityScore :
               TierRank(_get_priority_level(higher)) >= TierRank(plevel)

\* the score 69 got its tier
C13_Witness == pscore = 69 /\ plevel = "High"

\* file metrics that add nothing to the priority score
NeutralFileMetrics ==
    [complexity_score |-> RInt(0), maintainability_index |-> RInt(100),
     duplication_percentage |-> RInt(0), comment_ratio |-> RInt(100), lines_of_code |-> 0]

\* what metric k adds to the priority score when its value is v, whatever the others are
BandContribution(k, v) == _calculate_file_priority_score([NeutralFileMetrics EXCEPT ![k] = v])

\* C14: the file priority score is the sum of five band contributions (complexity,
\* maintainability, duplication, comment ratio, size), each determined by its own
\* metric alone, capped at 100: it always lies in [0,100].
C14_PriorityScoreAdditive ==
    (pmetrics # <<>> /\ pscore >= 0) =>
        /\ pscore \in 0..100
        /\ pscore = Min(100, BandContribution("complexity_score", pmetrics.complexity_score)
                    + BandContribution("maintainability_index", pmetrics.maintainability_index)
                    + BandContribution("duplication_percentage", pmetrics.duplication_percentage)
                    + BandContribution("comment_ratio", pmetrics.comment_ratio)
                    + BandContribution("lines_of_code", pmetrics.lines_of_code))

\* a file in the worst band of every metric
C14_Witness ==
    /\ pmetrics # <<>>
    /\ pscore = 30 + 25 + 20 + 10 + 10
    /\ plevel = "Critical"

-----------------------------------------------------------------------------
(* the complexity figures perform_scan ends with *)

\* the three buckets of a complexity result add up to its total_functions, and
\* agree with its smallest and largest complexity: simple is <= 5, complex is > 10
BucketsConsistent(r) ==
    /\ r.simple_functions + r.moderate_functions + r.complex_functions = r.total_functions
    /\ r.simple_functions >= 0 /\ r.moderate_functions >= 0 /\ r.complex_functions >= 0
    /\ r.total_functions > 0 =>
        /\ r.simple_functions > 0 <=> RLe(r.complexity_min, RInt(5))
        /\ r.complex_functions > 0 <=> RGt(r.complexity_max, RInt(10))
        /\ (RGt(r.complexity_min, RInt(5)) /\ RLe(r.complexity_max, RInt(10)))
               => r.moderate_functions = r.total_functions

\* C15: in every complexity result (what analyze_repository returns, what the
\* language-specific analysis returns from its exact or heuristic tier or on
\* failure, and what perform_scan stores after merging the two), simple_functions
\* + moderate_functions + complex_functions = total_functions.
C15_BucketsSumToTotal ==
    /\ BucketsConsistent(get_default_result("Unknown"))
    /\ (spc \in {"enhance", "check", "persist", "done"} /\ "error" \notin DOMAIN sres)
           => BucketsConsistent(sres)

\* a merged result with a simple and a complex function
C15_Witness ==
    /\ spc = "done"
    /\ "enhanced_analysis" \in DOMAIN sres
    /\ sres.simple_functions > 0
    /\ sres.complex_functions > 0
    /\ sstatus = "completed"

-----------------------------------------------------------------------------
(* the complexity, duplication and debt figures of analyze_repository *)

\* the complexities of the functions of the Python files of a tree that can be
\* read and parsed, in file order
FunctionComplexities(tr) ==
    LET py == SelectSeq(tr, LAMBDA i : /\ Catalogue[i].ext = "py"
                                       /\ Catalogue[i].readable /\ Catalogue[i].parses)
    IN  Concat([k \in 1..Len(py) |->
            [j \in 1..Len(Catalogue[py[k]].funcs) |-> Catalogue[py[k]].funcs[j].cx]])

\* C16: for a non-empty list of function complexities the reported average is
\* sum/len and complexity_min <= average <= complexity_max; for an empty list the
\* average, the minimum and the maximum are 0.
C16_AverageIsSumOverLen ==
    \A t \in Threads :
        RanAlone(t) =>
            LET cs == FunctionComplexities(repo[t])
            IN  IF cs = <<>>
                THEN /\ ret[t].complexity_score = RInt(0)
                     /\ ret[t].complexity_min = RInt(0)
                     /\ ret[t].complexity_max = RInt(0)
                ELSE /\ ret[t].complexity_score = Rat(SumSeq(cs), Len(cs))
                     /\ RLe(ret[t].complexity_min, ret[t].complexity_score)
                     /\ RLe(ret[t].complexity_score, ret[t].complexity_max)

\* a percentage between 0 and 100
IsPercentage(x) == RGe(x, RInt(0)) /\ RLe(x, RInt(100))

\* the significant lines of the readable files of a tree among those with an
\* extension in `exts`, in reading order
SignificantLines(tr, exts) ==
    LET read == SelectSeq(tr, LAMBDA i : Catalogue[i].readable /\ Catalogue[i].ext \in exts)
    IN  Concat([k \in 1..Len(read) |-> Catalogue[read[k]].sig])

\* the content of line i is also at another position of the list
RepeatedElsewhere(lines, i) == \E j \in 1..Len(lines) : j # i /\ lines[j] = lines[i]

\* no significant line of the tree is repeated, in its file or in another
NoRepeatedLine(tr) ==
    LET lines == SignificantLines(tr, {Catalogue[tr[i]].ext : i \in 1..Len(tr)})
    IN  \A i \in 1..Len(lines) : ~RepeatedElsewhere(lines, i)

\* C17: the repository's duplication_percentage and every per-file duplication
\* percentage lie in [0,100]; a repository in which no significant line is
\* repeated has duplication_percentage 0 and no duplicate blocks.
C17_DuplicationRange ==
    \A t \in Threads :
        /\ Returned(t) =>
            /\ IsPercentage(ret[t].duplication_percentage)
            /\ \A i \in 1..Len(ret[t].file_analyses) :
                   IsPercentage(ret[t].file_analyses[i].duplication_percentage)
            /\ \A i \in 1..Len(Get(ret[t], "high_duplication_files", <<>>)) :
                   IsPercentage(ret[t].high_duplication_files[i][2])
        /\ (RanAlone(t) /\ NoRepeatedLine(repo[t])) =>
            /\ ret[t].duplication_percentage = RInt(0)
            /\ ret[t].duplicate_blocks = <<>>

\* a repository with significant lines, none of them repeated, analysed alone
C17_Witness ==
    \E t \in Threads :
        /\ RanAlone(t)
        /\ NoRepeatedLine(repo[t])
        /\ Len(SignificantLines(repo[t], DOMAIN language_map)) >= 2
        /\ ret[t].file_analyses # <<>>
        /\ ret[t].duplication_percentage = RInt(0)

\* C18: duplication_percentage is the share of the significant lines whose
\* content also occurs at another significant line position of the repository:
\* two identical lines and no other significant line give 100.
C18_EveryRepeatCounts ==
    \A t \in Threads :
        RanAlone(t) =>
            LET lines == SignificantLines(repo[t], DOMAIN language_map)
                repeats == Cardinality({i \in 1..Len(lines) : RepeatedElsewhere(lines, i)})
            IN  ret[t].duplication_percentage
                    = Round1(Rat(100 * repeats, Max(Len(lines), 1)))

-----------------------------------------------------------------------------
(* the technical-debt result *)

DebtCategories == <<"duplication_debt_minutes", "complexity_debt_minutes",
                    "documentation_debt_minutes", "long_function_debt_minutes",
                    "quality_debt_minutes">>

DebtConsistent(r) ==
    /\ \A i \in 1..Len(DebtCategories) : r[DebtCategories[i]] \in Nat
    /\ r.technical_debt_minutes \in Nat
    /\ r.technical_debt_minutes =
           SumSeq([i \in 1..Len(DebtCategories) |-> r[DebtCategories[i]]])
    /\ DOMAIN r.debt_breakdown = {"duplication", "complexity", "documentation",
                                  "long_functions", "quality_issues"}
    /\ r.debt_breakdown.duplication = r.duplication_debt_minutes
    /\ r.debt_breakdown.complexity = r.complexity_debt_minutes
    /\ r.debt_breakdown.documentation = r.documentation_debt_minutes
    /\ r.debt_breakdown.long_functions = r.long_function_debt_minutes
    /\ r.debt_breakdown.quality_issues = r.quality_debt_minutes

\* C20: in every technical-debt result, of the debt step and of the combined result
\* an invocation returns, technical_debt_minutes is the sum of the five category
\* figures (duplication, complexity, documentation, long function, quality), every
\* figure is a non-negative integer and debt_breakdown carries the same five values.
C20_DebtIsSumOfFive ==
    \A t \in Threads :
        /\ "debt" \in DOMAIN loc[t] => DebtConsistent(loc[t].debt)
        /\ Returned(t) => DebtConsistent(ret[t])

C20_Witness ==
    \E t \in Threads :
        /\ RanAlone(t)
        /\ \A i \in 1..Len(DebtCategories) : ret[t][DebtCategories[i]] > 0

-----------------------------------------------------------------------------
(* The regex tier on one file: _analyze_files_with_patterns and
   _extract_function_content.  The text of the file is a sequence of tokens, each
   standing for the characters of one lexical unit; "{", "}" and "\n" are single
   characters, so the character loop of _extract_function_content decides at
   token boundaries only. *)

MaxFunctions == 2

\* len() of the characters a token stands for
TokenLen(tok) ==
    CASE tok \in {"{", "}", "\n", ")"} -> 1
      [] tok = "function f(" -> 11
      [] tok = "f: function(" -> 12
      [] tok = "f = function(" -> 13
      [] tok = "const " -> 6
      [] tok = "f = (" -> 5
      [] tok = ") =>" -> 4
      [] tok = "def f" -> 5
      [] tok = "if" -> 7          \* if (c) , if c
      [] tok = "for" -> 11        \* for (x of xs) , for x in xs
      [] tok = "end" -> 3
      [] tok = "stmt" -> 8        \* a statement with no keyword in it
      [] tok = "long stmt" -> 40
      [] tok = "text" -> 194      \* text of 194 characters with no brace and no newline
      [] tok = "x" -> 1

\* complexity_keywords of analyze_javascript_complexity and analyze_ruby_complexity;
\* a keyword is named by the word its regular expression matches
complexity_keywords(language) ==
    IF language = "Ruby"
    THEN <<"if", "else", "elsif", "while", "for", "case", "when", "and", "or", "unless">>
    ELSE <<"if", "else", "while", "for", "switch", "case", "catch", "try", "?:", "||",
           "&&", "do">>

\* function_patterns of analyze_javascript_complexity, function_pattern of
\* analyze_ruby_complexity; a pattern is named by the shape of the text it matches
function_patterns(language) ==
    IF language = "Ruby"
    THEN <<"def NAME">>
    ELSE <<"function NAME (", "NAME : function (", "NAME = function (",
           "NAME = ( ... ) =>", "const NAME = ( ... ) =>">>

\* \w+\s*=\s*\([^)]*\)\s*=> matches from token i
ArrowAt(content, i) ==
    /\ i \in 1..Len(content)
    /\ content[i] = "f = ("
    /\ \E j \in (i + 1)..Len(content) :
          /\ content[j] = ") =>"
          /\ \A k \in (i + 1)..(j - 1) : content[k] \notin {")", ") =>"}

\* the pattern matches the text that starts at token i
MatchesAt(pattern, content, i) ==
    CASE pattern = "def NAME" -> content[i] = "def f"
      [] pattern = "function NAME (" -> content[i] = "function f("
      [] pattern = "NAME : function (" -> content[i] = "f: function("
      [] pattern = "NAME = function (" -> content[i] = "f = function("
      [] pattern = "NAME = ( ... ) =>" -> ArrowAt(content, i)
      [] pattern = "const NAME = ( ... ) =>" -> content[i] = "const " /\ ArrowAt(content, i + 1)

\* for pattern in function_patterns: functions.extend(re.finditer(pattern, content))
FindFunctions(patterns, content) ==
    Concat([p \in 1..Len(patterns) |->
               SelectSeq([i \in 1..Len(content) |-> i],
                         LAMBDA i : MatchesAt(patterns[p], content, i))])

\* the loop of _extract_function_content at token i, `length` being len(func_content)
\* before the token is appended: the index of the last token appended
RECURSIVE ExtractLoop(_, _, _, _, _)
ExtractLoop(content, i, brace_count, in_function, length) ==
    IF i > Len(content) THEN Len(content)
    ELSE CASE content[i] = "{" ->
                ExtractLoop(content, i + 1, brace_count + 1, TRUE,
                            length + TokenLen(content[i]))
           [] content[i] = "}" /\ in_function ->
                IF brace_count - 1 = 0 THEN i
                ELSE ExtractLoop(content, i + 1, brace_count - 1, in_function,
                                 length + TokenLen(content[i]))
           [] /\ content[i] # "{"
              /\ ~(content[i] = "}" /\ in_function)
              /\ ~in_function
              /\ content[i] = "\n" /\ length + TokenLen(content[i]) > 200 -> i
           [] OTHER ->
                ExtractLoop(content, i + 1, brace_count, in_function,
                            length + TokenLen(content[i]))

\* an extraction that ends at the first closing brace after the start
ExtractToFirstClose(content, start_pos) ==
    LET closes == {j \in start_pos..Len(content) : content[j] = "}"}
    IN  SubSeq(content, start_pos,
               IF closes = {} THEN Len(content)
               ELSE CHOOSE j \in closes : \A k \in closes : j <= k)

\* _extract_function_content
_extract_function_content(content, start_pos) ==
    SubSeq(content, start_pos, ExtractLoop(content, start_pos, 0, FALSE, 0))

\* len(re.findall(keyword, func_content, re.IGNORECASE))
FindAll(keyword, func_content) == Count(func_content, LAMBDA tok : tok = keyword)

\* complexity = 1; for keyword in complexity_keywords: complexity += len(re.findall(...));
\* float(complexity) is a whole number, kept as an integer here
KeywordComplexity(keywords, func_content) ==
    1 + SumSeq([k \in 1..Len(keywords) |-> FindAll(keywords[k], func_content)])

\* --- the files the tier is run on ---

RegexLanguages == {"JavaScript", "Ruby"}

\* a function of the file: how it is written, how many `if` and `for` statements
\* its body has, whether more than 200 characters of plain statements precede
\* them, whether a parameter has the default value {}
FunctionShapes(language) ==
    IF language = "Ruby"
    THEN [form : {"def"}, ifs : 0..1, fors : 0..1, long : BOOLEAN, defaults : {FALSE}]
    ELSE [form : {"declaration", "method", "expression", "arrow"}, ifs : 0..1, fors : 0..1,
          long : {FALSE}, defaults : BOOLEAN]

Optional(n, toks) == IF n = 0 THEN <<>> ELSE toks

\* the text of one function
Render(fn) ==
    IF fn.form = "def"
    THEN <<"def f", "\n">>
         \o (IF fn.long
             THEN <<"long stmt", "\n", "long stmt", "\n", "long stmt", "\n",
                    "long stmt", "\n", "long stmt", "\n">>
             ELSE <<>>)
         \o Optional(fn.ifs, <<"if", "\n", "stmt", "\n", "end", "\n">>)
         \o Optional(fn.fors, <<"for", "\n", "stmt", "\n", "end", "\n">>)
         \o <<"end", "\n">>
    ELSE (CASE fn.form = "declaration" -> <<"function f(">>
            [] fn.form = "method" -> <<"f: function(">>
            [] fn.form = "expression" -> <<"f = function(">>
            [] fn.form = "arrow" -> <<"const ", "f = (">>)
         \o (IF fn.defaults THEN <<"{", "}">> ELSE <<>>)
         \o (IF fn.form = "arrow" THEN <<") =>">> ELSE <<")">>)
         \o <<"{", "\n">>
         \o Optional(fn.ifs, <<"if", "{", "stmt", "}", "\n">>)
         \o Optional(fn.fors, <<"for", "{", "stmt", "}", "\n">>)
         \o <<"}", "\n">>

\* The number of tokens of the longest text made of braces, newlines and plain text.
MaxTokens == 5

\* texts with braces that need not match, in a language whose functions need none
LooseTexts ==
    UNION {[1..n -> {"def f", "{", "}", "\n", "text", "x"}] : n \in 1..MaxTokens}

\* the files of up to MaxFunctions functions, one after the other, and the loose texts
RegexFiles(language) ==
    {Concat([i \in 1..Len(fns) |-> Render(fns[i])]) :
        fns \in UNION {[1..n -> FunctionShapes(language)] : n \in 0..MaxFunctions}}
    \cup (IF language = "Ruby" THEN LooseTexts ELSE {})

RegexInit ==
    /\ hpc = "open"
    /\ hlang \in RegexLanguages
    /\ hreadable \in BOOLEAN
    /\ hcontent \in RegexFiles(hlang)
    /\ hmatches = <<>> /\ hbodies = <<>> /\ hscores = <<>>
    /\ ScanIdle /\ LangIdle /\ PerformIdle /\ ScoreIdle /\ PriorityIdle /\ AppIdle

\* content = f.read(), then the patterns are searched
ReadAndFind ==
    /\ hpc = "open" /\ hreadable
    /\ hmatches' = FindFunctions(function_patterns(hlang), hcontent)
    /\ hpc' = "loop"
    /\ UNCHANGED <<hlang, hreadable, hcontent, hbodies, hscores>>

\* open() raises: except Exception: continue
ReadFails ==
    /\ hpc = "open" /\ ~hreadable
    /\ hpc' = "done"
    /\ UNCHANGED <<hlang, hreadable, hcontent, hmatches, hbodies, hscores>>

\* one iteration of `for func_match in functions`
AnalyseFunction ==
    /\ hpc = "loop" /\ hmatches # <<>>
    /\ Bind(_extract_function_content(hcontent, Head(hmatches)),
            LAMBDA func_content :
                /\ hbodies' = Append(hbodies, [start |-> Head(hmatches),
                                               func_content |-> func_content])
                /\ hscores' = Append(hscores,
                                     KeywordComplexity(complexity_keywords(hlang),
                                                       func_content)))
    /\ hmatches' = Tail(hmatches)
    /\ UNCHANGED <<hpc, hlang, hreadable, hcontent>>

\* return complexity_scores
ReturnScores ==
    /\ hpc = "loop" /\ hmatches = <<>>
    /\ hpc' = "done"
    /\ UNCHANGED <<hlang, hreadable, hcontent, hmatches, hbodies, hscores>>

RegexNext ==
    /\ \/ ReadAndFind
       \/ ReadFails
       \/ AnalyseFunction
       \/ ReturnScores
    /\ UNCHANGED <<scanVars, langVars, performVars, scoreVars, priorityVars, appVars>>

SpecRegex == RegexInit /\ [][RegexNext]_vars

\* --- what the functions of the file are ---

SignatureStarts == {"def f", "function f(", "f: function(", "f = function(", "const "}

\* the text of the function a match at token `start` belongs to: up to the token
\* before the next function's signature, or to the end of the file
FunctionText(content, start) ==
    LET later == {q \in (start + 1)..Len(content) : content[q] \in SignatureStarts}
    IN  SubSeq(content, start,
               IF later = {} THEN Len(content)
               ELSE (CHOOSE q \in later : \A r \in later : q <= r) - 1)

BranchingTokens(language, toks) ==
    Count(toks, LAMBDA tok : \E k \in 1..Len(complexity_keywords(language)) :
                                 tok = complexity_keywords(language)[k])

OneIfOneFor(language, toks) ==
    /\ Count(toks, LAMBDA tok : tok = "if") = 1
    /\ Count(toks, LAMBDA tok : tok = "for") = 1
    /\ BranchingTokens(language, toks) = 2

\* C19: in the heuristic tier every function's complexity is an integer >= 1, equal
\* to 1 plus the number of occurrences of the language's branching keywords inside
\* the extracted function body; a function whose body contains exactly one `if` and
\* one `for` and no other branching construct gets complexity 3.
C19_HeuristicComplexity ==
    \A i \in 1..Len(hscores) :
        /\ hscores[i] \in Nat /\ hscores[i] >= 1
        /\ hscores[i] = 1 + BranchingTokens(hlang, hbodies[i].func_content)
        /\ OneIfOneFor(hlang, FunctionText(hcontent, hbodies[i].start)) => hscores[i] = 3

-----------------------------------------------------------------------------
(* the function ranking *)

\* the functions of the analysed files that are called `name`
FunctionsNamed(name) ==
    {fn \in UNION {{ScanFiles[i].funcs[j] : j \in 1..Len(ScanFiles[i].funcs)} :
                      i \in 1..Len(ScanFiles)} : fn.name = name}

NeedsAttention(a) ==
    \/ a.needs_refactoring
    \/ a.complexity_score > 8
    \/ ~a.has_documentation
    \/ a.lines_of_code > 30

\* C21: every function of the returned function ranking satisfies at least one
\* needs-attention predicate (needs_refactoring, complexity > 8, no docstring, length
\* > 30 lines), needs_refactoring is true exactly when complexity > 10 or length > 50,
\* and a function that meets none of the predicates never appears.
C21_OnlyNeedsAttention ==
    \A t \in Threads :
        Returned(t) =>
            \A i \in 1..Len(ret[t].function_analyses) :
                LET a == ret[t].function_analyses[i]
                IN  /\ NeedsAttention(a)
                    /\ a.needs_refactoring <=> (a.complexity_score > 10 \/ a.lines_of_code > 50)
                    /\ \A fn \in FunctionsNamed(a.function_name) :
                           fn.cx > 8 \/ ~fn.doc \/ fn.len > 30

\* a.py alone: g (complexity 12, 40 lines, no docstring) is ranked, f (complexity 3,
\* 5 lines, documented) is not
C21_Witness ==
    \E t \in Threads :
        /\ RanAlone(t)
        /\ repo[t] = <<1>>
        /\ {ret[t].function_analyses[i].function_name :
               i \in 1..Len(ret[t].function_analyses)} = {"g"}
        /\ ret[t].function_analyses[1].needs_refactoring

-----------------------------------------------------------------------------
(* analyze_repository, one invocation, on trees with more files than the file
   ranking keeps and more functions than the function ranking keeps *)

\* the catalogue index of the first of the RankFiles
RankBase == Len(ScanFiles) + Len(LangFiles) + Len(ScenarioFiles)

\* the trees: files a..b of RankFiles, at most one file or at least MaxRankFiles - 3
RankRepos ==
    {<<>>} \cup
    {[k \in 1..(r[2] - r[1] + 1) |-> RankBase + r[1] + k - 1] :
        r \in {q \in (1..MaxRankFiles) \X (1..MaxRankFiles) :
                  q[2] = q[1] \/ q[2] - q[1] + 1 >= MaxRankFiles - 3}}

RankInit ==
    /\ cache = <<>>
    /\ tempdirs = {}
    /\ pc = [t \in Threads |-> IF t = 1 THEN "idle" ELSE "off"]
    /\ repo \in {r \in [Threads -> RankRepos \cup {<<>>}] : r[2] = <<>>}
    /\ loc = [t \in Threads |-> <<>>]
    /\ ret = [t \in Threads |-> <<>>]
    /\ LangIdle /\ PerformIdle /\ ScoreIdle /\ PriorityIdle /\ RegexIdle /\ AppIdle

RankNext ==
    /\ \/ CloneOk(1)
       \/ CloneFails(1)
       \/ LanguageStage(1)
       \/ LinesStage(1)
       \/ ComplexityStage(1)
       \/ MaintainabilityStage(1)
       \/ DuplicationStage(1)
       \/ DebtStage(1)
       \/ FilesStage(1)
       \/ FunctionsStage(1)
       \/ CombineAndCleanup(1)
       \/ RemoveAndReturn(1)
    /\ UNCHANGED <<langVars, performVars, scoreVars, priorityVars, regexVars, appVars>>

SpecRank == RankInit /\ [][RankNext]_vars

\* s is in descending order of Key
Descending(s, Key(_)) == \A i \in 1..(Len(s) - 1) : Key(s[i]) >= Key(s[i + 1])

\* the priority score of every readable source file of the tree
FileScores(tr) ==
    LET src == SelectSeq(tr, LAMBDA i : Catalogue[i].ext \in source_extensions
                                        /\ Catalogue[i].readable)
    IN  [k \in 1..Len(src) |->
            [name |-> Catalogue[src[k]].name,
             score |-> _calculate_file_priority_score(
                           _analyze_single_file(Path(1, src[k]),
                               _get_language_from_extension(Catalogue[src[k]].ext)))]]

\* file, name and complexity of every function of the tree that needs attention
FunctionScores(tr) ==
    LET py == SelectSeq(tr, LAMBDA i : Catalogue[i].ext = "py" /\ Catalogue[i].readable
                                       /\ Catalogue[i].parses)
        all == Concat([k \in 1..Len(py) |->
                   [j \in 1..Len(Catalogue[py[k]].funcs) |->
                       [file |-> Catalogue[py[k]].name, fn |-> Catalogue[py[k]].funcs[j]]]])
    IN  SelectSeq(all, LAMBDA e : \/ e.fn.cx > 8 \/ ~e.fn.doc \/ e.fn.len > 30)

-----------------------------------------------------------------------------
(* Two successive analyze_repository calls on one scanner, for the same
   repository: the second starts when the first has returned.  Each call clones
   into a directory of its own, and os.walk lists a directory in the order the
   file system gives, which need not be the same in both. *)

\* the files of ScanFiles in any order, at most MaxFiles of them
OrderedRepos ==
    UNION {{s \in [1..n -> 1..Len(ScanFiles)] : \A i, j \in 1..n : i # j => s[i] # s[j]} :
              n \in 0..MaxFiles}

SameFiles(a, b) ==
    /\ Len(a) = Len(b)
    /\ {a[i] : i \in 1..Len(a)} = {b[i] : i \in 1..Len(b)}

RepeatInit ==
    /\ cache = <<>>
    /\ tempdirs = {}
    /\ pc = [t \in Threads |-> "idle"]
    /\ repo \in {r \in [Threads -> OrderedRepos] : SameFiles(r[1], r[2])}
    /\ loc = [t \in Threads |-> <<>>]
    /\ ret = [t \in Threads |-> <<>>]
    /\ LangIdle /\ PerformIdle /\ ScoreIdle /\ PriorityIdle /\ RegexIdle /\ AppIdle

RepeatNext ==
    /\ \E t \in Threads :
        /\ t = 2 => pc[1] = "done"
        /\ \/ CloneOk(t)
           \/ CloneFails(t)
           \/ LanguageStage(t)
           \/ LinesStage(t)
           \/ ComplexityStage(t)
           \/ MaintainabilityStage(t)
           \/ DuplicationStage(t)
           \/ DebtStage(t)
           \/ FilesStage(t)
           \/ FunctionsStage(t)
           \/ CombineAndCleanup(t)
           \/ RemoveAndReturn(t)
    /\ UNCHANGED <<langVars, performVars, scoreVars, priorityVars, regexVars, appVars>>

SpecRepeat == RepeatInit /\ [][RepeatNext]_vars

\* the metric values of a result: its numbers, not its lists of files or functions
MetricKeys ==
    {"files_analyzed", "total_lines", "code_lines", "comment_lines", "blank_lines",
     "complexity_score", "complexity_min", "complexity_max", "total_functions",
     "maintainability_index", "duplication_percentage", "files_with_duplication",
     "technical_debt_minutes", "duplication_debt_minutes", "complexity_debt_minutes",
     "documentation_debt_minutes", "long_function_debt_minutes", "quality_debt_minutes"}

MetricsOf(r) == [k \in MetricKeys \cap DOMAIN r |-> r[k]]

\* C23: two successive analyses of the same unchanged directory on the same scanner
\* return identical results: the second is unaffected by what the first left behind,
\* and the order in which the files are iterated changes no metric value.
C23_Idempotent ==
    (Returned(1) /\ Returned(2)) =>
        /\ MetricsOf(ret[1]) = MetricsOf(ret[2])
        /\ repo[1] = repo[2] =>
               [k \in DOMAIN ret[1] \ {"source_files"} |-> ret[1][k]]
                   = [k \in DOMAIN ret[2] \ {"source_files"} |-> ret[2][k]]

-----------------------------------------------------------------------------
(* the approximate maintainability index *)

\* k_c, offset and k_s of the language's formula
MaintainabilityConstants(language) ==
    CASE language \in {"JavaScript", "TypeScript"} -> <<RInt(3), 100, 20>>
      [] language = "Java" -> <<RInt(4), 150, 15>>
      [] language \in {"C++", "C"} -> <<RInt(5), 120, 25>>
      [] language = "Go" -> <<RInt(6), 80, 30>>
      [] language = "C#" -> <<RInt(4), 200, 12>>
      [] language = "Rust" -> <<Rat(7, 2), 100, 25>>
      [] language = "PHP" -> <<Rat(7, 2), 120, 20>>
      [] language = "Ruby" -> <<RInt(3), 150, 18>>
      [] OTHER -> <<RInt(4), 100, 20>>

\* the files of the language under the root, and the lines of those that open
LanguageFiles == _get_files_by_extension(LangWalk, HeuristicOf(lang).extensions)
OpenedSizes ==
    LET opened == SelectSeq(LanguageFiles, LAMBDA p : CanRead(p, LangDirs))
    IN  [i \in 1..Len(opened) |->
            FileOf(opened[i]).blank + FileOf(opened[i]).comment + FileOf(opened[i]).code]

\* 100 - k_c * avg_complexity - max(0, avg_file_size - offset) / k_s
UnclampedIndex ==
    LET k == MaintainabilityConstants(lang)
        scores == _analyze_files_with_patterns(LanguageFiles, LangDirs)
        avg_complexity == Rat(SumSeq(scores), Len(scores))
        avg_file_size == Rat(SumSeq(OpenedSizes), Max(Len(OpenedSizes), 1))
        excess == IF RGt(avg_file_size, RInt(k[2])) THEN RSub(avg_file_size, RInt(k[2]))
                  ELSE RInt(0)
    IN  RSub(RSub(RInt(100), RMul(k[1], avg_complexity)), RDivInt(excess, k[3]))

\* the call returned what the heuristic tier computed
HeuristicTierUsed ==
    /\ lpc = "done"
    /\ lang # "Python"
    /\ lres.analysis_method = HeuristicOf(lang).method

\* C24: for every non-native language the approximate maintainability index is
\* 100 - k_c * avg_complexity - max(0, avg_file_size - offset) / k_s with the
\* language's constants, clamped so that the returned value lies in [0, 100]; it is 0
\* when there are no files or no functions found.
C24_ApproximateMaintainability ==
    HeuristicTierUsed =>
        /\ RGe(lres.maintainability_index, RInt(0))
        /\ RLe(lres.maintainability_index, RInt(100))
        /\ IF LanguageFiles = <<>> \/ _analyze_files_with_patterns(LanguageFiles, LangDirs) = <<>>
           THEN lres.maintainability_index = RInt(0)
           ELSE lres.maintainability_index =
                    (IF RLt(UnclampedIndex, RInt(0)) THEN RInt(0)
                     ELSE IF RGt(UnclampedIndex, RInt(100)) THEN RInt(100)
                     ELSE UnclampedIndex)

\* a Go tree whose formula gives a negative number: 0 is returned
C24_Witness ==
    /\ HeuristicTierUsed
    /\ lang = "Go"
    /\ LanguageFiles # <<>>
    /\ lres.total_functions > 0
    /\ RLt(UnclampedIndex, RInt(0))
    /\ lres.maintainability_index = RInt(0)

-----------------------------------------------------------------------------
(* what _extract_function_content is to return *)

Least(S) == CHOOSE j \in S : \A k \in S : j <= k

\* the number of characters of tokens a..b
Chars(content, a, b) == SumSeq([k \in 1..(b - a + 1) |-> TokenLen(content[a + k - 1])])

\* opening braces less closing braces in tokens a..b
Depth(content, a, b) ==
    Cardinality({k \in a..b : content[k] = "{"}) - Cardinality({k \in a..b : content[k] = "}"})

\* the last token of the text to return for a function that starts at token s: the
\* first newline that ends more than 200 characters with no opening brace among
\* them; else the closing brace that matches the first opening brace; else the last
\* token of the file
ExpectedEnd(content, s) ==
    LET cuts == {j \in s..Len(content) :
                    /\ content[j] = "\n"
                    /\ Chars(content, s, j) > 200
                    /\ \A k \in s..j : content[k] # "{"}
        opens == {j \in s..Len(content) : content[j] = "{"}
        closes == {j \in s..Len(content) :
                      /\ opens # {} /\ j > Least(opens) /\ content[j] = "}"
                      /\ Depth(content, Least(opens), j) = 0}
    IN  IF cuts # {} THEN Least(cuts)
        ELSE IF closes # {} THEN Least(closes)
        ELSE Len(content)

\* C25: _extract_function_content returns the text from the start position up to
\* and including the closing brace that matches the first opening brace after the
\* start (closing braces before it are ignored, the depth counted from it is never
\* negative); when no opening brace has been seen it stops at the first newline that
\* makes the text longer than 200 characters; with no terminator it returns the rest
\* of the file.
C25_ExtractedText ==
    \A i \in 1..Len(hbodies) :
        LET s == hbodies[i].start
            e == ExpectedEnd(hcontent, s)
            opens == {j \in s..e : hcontent[j] = "{"}
        IN  /\ hbodies[i].func_content = SubSeq(hcontent, s, e)
            /\ opens # {} => \A j \in Least(opens)..e : Depth(hcontent, Least(opens), j) >= 0

\* a closing brace comes before the first opening brace and text follows the
\* matching close: the text returned runs from the start to the matching close
C25_Witness ==
    /\ hcontent = <<"def f", "}", "{", "}", "x">>
    /\ hbodies = <<[start |-> 1, func_content |-> <<"def f", "}", "{", "}">>]>>

-----------------------------------------------------------------------------
(* start_scan, perform_scan and delete_repository on one repository: the    *)
(* committed scan_status, the committed analysis rows and what each session *)
(* holds.  Every request thread and every perform_scan thread has a session *)
(* of its own; a flush makes nothing visible to another session.            *)

\* a rollback in the except block that drops nothing
RollbackKeepsRows(added) == added

\* db.session.rollback(): what the session added is dropped
Rollback(added) == {}

\* db.session.commit() by the thread of scan w: what its session added is durable
Commit(committed, added, w) == committed \cup {<<model, w>> : model \in added}

\* the positions of a perform_scan thread that has not ended
Running == {"load", "analyse", "failed", "result", "files", "finish", "handler"}

AppInit ==
    /\ rstatus = "pending"
    /\ rrows = {}
    /\ rpc = [q \in Requests |-> "idle"]
    /\ wpc = [q \in Requests |-> "off"]
    /\ wsession = [q \in Requests |-> {}]
    /\ ScanIdle /\ LangIdle /\ PerformIdle /\ ScoreIdle /\ PriorityIdle /\ RegexIdle

\* repository = Repository.query.get_or_404(repo_id) and the scan_status test
StartCheck(q) ==
    /\ rpc[q] = "idle"
    /\ rpc' = [rpc EXCEPT ![q] = IF rstatus = None THEN "not found"
                                 ELSE IF rstatus = "scanning"
                                      THEN "Scan already in progress"
                                      ELSE "passed"]
    /\ UNCHANGED <<rstatus, rrows, wpc, wsession>>

\* repository.scan_status = 'scanning'; db.session.commit()
StartCommit(q) ==
    /\ rpc[q] = "passed"
    /\ rstatus # None
    /\ rstatus' = "scanning"
    /\ rpc' = [rpc EXCEPT ![q] = "committed"]
    /\ UNCHANGED <<rrows, wpc, wsession>>

\* the commit raises (the row is gone, the database refuses): response 500
StartCommitRaises(q) ==
    /\ rpc[q] = "passed"
    /\ rpc' = [rpc EXCEPT ![q] = "error"]
    /\ UNCHANGED <<rstatus, rrows, wpc, wsession>>

\* threading.Thread(target=perform_scan, args=(repo_id,)).start(); 'Scan started'
StartThread(q) ==
    /\ rpc[q] = "committed"
    /\ wpc' = [wpc EXCEPT ![q] = "load"]
    /\ rpc' = [rpc EXCEPT ![q] = "Scan started"]
    /\ UNCHANGED <<rstatus, rrows, wsession>>

\* delete_repository: the row and, by cascade, every analysis row
DeleteRepository ==
    /\ rstatus # None
    /\ rstatus' = None
    /\ rrows' = {}
    /\ UNCHANGED <<rpc, wpc, wsession>>

\* repository = Repository.query.get(repo_id); if not repository: return
Load(w) ==
    /\ wpc[w] = "load"
    /\ wpc' = [wpc EXCEPT ![w] = IF rstatus = None THEN "returned" ELSE "analyse"]
    /\ UNCHANGED <<rstatus, rrows, rpc, wsession>>

\* detect_primary_language, analyze_repository and the enhanced analysis: each
\* catches its own exceptions; analysis_result has an 'error' or has none
Analyse(w) ==
    /\ wpc[w] = "analyse"
    /\ \E error \in BOOLEAN :
        wpc' = [wpc EXCEPT ![w] = IF error THEN "failed" ELSE "result"]
    /\ UNCHANGED <<rstatus, rrows, rpc, wsession>>

\* if analysis_result.get('error'): scan_status = 'error'; commit; return
CommitError(w) ==
    /\ wpc[w] = "failed"
    /\ rstatus # None
    /\ rstatus' = "error"
    /\ rrows' = Commit(rrows, wsession[w], w)
    /\ wpc' = [wpc EXCEPT ![w] = "error"]
    /\ UNCHANGED <<rpc, wsession>>

\* that commit raises
CommitErrorRaises(w) ==
    /\ wpc[w] = "failed"
    /\ wpc' = [wpc EXCEPT ![w] = "handler"]
    /\ UNCHANGED <<rstatus, rrows, rpc, wsession>>

\* db.session.add(scan_result); db.session.flush()
AddScanResult(w) ==
    /\ wpc[w] = "result"
    /\ wsession' = [wsession EXCEPT ![w] = @ \cup {"ScanResult"}]
    /\ \E raised \in BOOLEAN :
        wpc' = [wpc EXCEPT ![w] = IF raised THEN "handler" ELSE "files"]
    /\ UNCHANGED <<rstatus, rrows, rpc>>

\* the FileAnalysis rows; db.session.flush()
AddFileAnalyses(w) ==
    /\ wpc[w] = "files"
    /\ wsession' = [wsession EXCEPT ![w] = @ \cup {"FileAnalysis"}]
    /\ \E raised \in BOOLEAN :
        wpc' = [wpc EXCEPT ![w] = IF raised THEN "handler" ELSE "finish"]
    /\ UNCHANGED <<rstatus, rrows, rpc>>

\* the FunctionAnalysis rows, the UnderstandingScore, scan_status = 'completed'
\* and db.session.commit()
CommitCompleted(w) ==
    /\ wpc[w] = "finish"
    /\ rstatus # None
    /\ rstatus' = "completed"
    /\ rrows' = Commit(rrows, wsession[w] \cup {"FunctionAnalysis", "UnderstandingScore"}, w)
    /\ wsession' = [wsession EXCEPT ![w] = {}]
    /\ wpc' = [wpc EXCEPT ![w] = "completed"]
    /\ UNCHANGED rpc

\* that commit raises
CommitCompletedRaises(w) ==
    /\ wpc[w] = "finish"
    /\ wsession' = [wsession EXCEPT ![w] = @ \cup {"FunctionAnalysis", "UnderstandingScore"}]
    /\ wpc' = [wpc EXCEPT ![w] = "handler"]
    /\ UNCHANGED <<rstatus, rrows, rpc>>

\* except Exception: rollback; repository = Repository.query.get(repo_id);
\* if repository: scan_status = 'error'; commit
HandleException(w) ==
    /\ wpc[w] = "handler"
    /\ wsession' = [wsession EXCEPT ![w] = Rollback(@)]
    /\ IF rstatus = None
       THEN /\ wpc' = [wpc EXCEPT ![w] = "returned"]
            /\ UNCHANGED <<rstatus, rrows>>
       ELSE /\ rstatus' = "error"
            /\ rrows' = Commit(rrows, Rollback(wsession[w]), w)
            /\ wpc' = [wpc EXCEPT ![w] = "error"]
    /\ UNCHANGED rpc

\* the except block raises itself (the query or the commit): the thread ends with
\* the exception
HandlerRaises(w) ==
    /\ wpc[w] = "handler"
    /\ rstatus # None
    /\ wsession' = [wsession EXCEPT ![w] = Rollback(@)]
    /\ wpc' = [wpc EXCEPT ![w] = "raised"]
    /\ UNCHANGED <<rstatus, rrows, rpc>>

\* the steps of one start_scan request
start_scan(q) ==
    \/ StartCheck(q)
    \/ StartCommit(q)
    \/ StartCommitRaises(q)
    \/ StartThread(q)

\* the steps of the perform_scan thread of one scan
perform_scan(w) ==
    \/ Load(w)
    \/ Analyse(w)
    \/ CommitError(w)
    \/ CommitErrorRaises(w)
    \/ AddScanResult(w)
    \/ AddFileAnalyses(w)
    \/ CommitCompleted(w)
    \/ CommitCompletedRaises(w)
    \/ HandleException(w)
    \/ HandlerRaises(w)

AppNext ==
    /\ \/ \E q \in Requests : start_scan(q)
       \/ \E w \in Requests : perform_scan(w)
       \/ DeleteRepository
    /\ UNCHANGED <<scanVars, langVars, performVars, scoreVars, priorityVars, regexVars>>

SpecApp == AppInit /\ [][AppNext]_vars

\* C26: at most one scan runs per repository at any time: under any interleaving of
\* start_scan requests for the same repository at most one passes the scan_status
\* check and has a perform_scan thread running; every other is rejected with
\* 'Scan already in progress'.
C26_AtMostOneScan ==
    /\ Cardinality({w \in Requests : wpc[w] \in Running}) <= 1
    /\ \A q \in Requests :
        (\E w \in Requests \ {q} : wpc[w] \in Running) /\ rpc[q] # "idle" /\ wpc[q] = "off"
            => rpc[q] \in {"Scan already in progress", "not found"}

\* The request threads and the background threads are scheduled by the operating
\* system: a thread that can take a step takes one.  Nothing obliges a client to
\* delete the repository.
SpecAppFair ==
    /\ SpecApp
    /\ \A q \in Requests :
        /\ WF_vars(start_scan(q) /\ UNCHANGED <<scanVars, langVars, performVars,
                                                scoreVars, priorityVars, regexVars>>)
        /\ WF_vars(perform_scan(q) /\ UNCHANGED <<scanVars, langVars, performVars,
                                                  scoreVars, priorityVars, regexVars>>)

\* C27: every scan start_scan puts into status 'scanning' eventually leaves it:
\* perform_scan sets scan_status to 'completed' or 'error' on every path, so an
\* existing repository never stays 'scanning' forever.
C27_LeavesScanning == (rstatus = "scanning") ~> (rstatus # "scanning")

\* the committed rows of scan w
RowsOf(w) == {model \in {"ScanResult", "FileAnalysis", "FunctionAnalysis", "UnderstandingScore"} :
                 <<model, w>> \in rrows}

\* C28: scan persistence is atomic with the status: whenever scan_status is
\* 'completed' a ScanResult with its UnderstandingScore has been committed by a scan
\* that completed, every scan that completed has both, and a scan that ended in
\* 'error' (or has not ended, or ended without writing a status) has left no
\* ScanResult, FileAnalysis, FunctionAnalysis or UnderstandingScore row.
C28_PersistenceAtomicWithStatus ==
    /\ rstatus = "completed" =>
        \E w \in Requests :
            wpc[w] = "completed" /\ {"ScanResult", "UnderstandingScore"} \subseteq RowsOf(w)
    /\ \A w \in Requests :
        /\ wpc[w] = "completed" /\ rstatus # None
            => {"ScanResult", "UnderstandingScore"} \subseteq RowsOf(w)
        /\ wpc[w] \in {"error", "raised", "returned"} \cup Running => RowsOf(w) = {}

\* one scan ended in 'error' and left nothing, the other then completed with its rows
C28_Witness ==
    /\ rstatus = "completed"
    /\ \E w \in Requests : wpc[w] = "error" /\ RowsOf(w) = {}
    /\ \E w \in Requests : wpc[w] = "completed" /\ "FileAnalysis" \in RowsOf(w)

-----------------------------------------------------------------------------
(* what analyze_repository leaves behind when it returns *)

\* C29: every temporary directory created for a clone is removed by the time the
\* call that created it returns, on every path: after a successful analysis and
\* after a clone that fails once the directory exists.
C29_TempDirRemoved ==
    \A t \in Threads : pc[t] = "done" => t \notin tempdirs

\* C30: after any analyze_repository call returns, with a result or with an error
\* dictionary, none of the _cached_* attributes remains set on the scanner: at the
\* step on which a call returns the scanner has none of the four.
C30_NoCacheAfterReturn ==
    [][\A t \in Threads :
          pc[t] # "done" /\ pc'[t] = "done" => DOMAIN cache' \cap CacheAttrs = {}]_vars

====
